---------------------------- MODULE Spec2Model ----------------------------
(***************************************************************************)
(* Cronty MCP: the notification-scheduling tools of tools/schedule.py and  *)
(* the QStash client wrapper of services/qstash.py, and the push           *)
(* notification tool of tools/push_notification.py with the ntfy.sh client *)
(* of services/ntfy.py.                                                    *)
(*                                                                         *)
(* A Python str is a sequence of one-character strings, so that regular    *)
(* expression matching, split, startswith and replace are computed on the  *)
(* characters.  An optional argument is None or Some(v).  A function that  *)
(* can raise returns Return(v) or Raise(type, msg, detail).                *)
(***************************************************************************)
EXTENDS Integers, Sequences, FiniteSets, TLC

VARIABLES
    environ,    \* os.environ of the server process
    now,        \* the clock, in ticks since the Unix epoch
    request,    \* the tool call being answered, or Idle
    calls,      \* the QStash and ntfy.sh calls made while answering it, in order
    response,   \* what the tool call returned or raised
    store,      \* the schedules QStash holds, for invocations that overlap
    inflight    \* the overlapping management invocations, each at its step

vars == <<environ, now, request, calls, response, store, inflight>>

---------------------------------------------------------------------------
(* Bounds of the model *)

MaxNow == 3
TicksPerSecond == 2
MaxDelayLen == 4
MaxCronLen == 11
MaxLabelLen == 2
MaxListed == 2
MaxDurationLen == 3
MaxInvocations == 2

TicksPerMinute == 60 * TicksPerSecond
TicksPerHour == 60 * TicksPerMinute
TicksPerDay == 24 * TicksPerHour

---------------------------------------------------------------------------
(* Python values *)

None == [given |-> FALSE]
Some(v) == [given |-> TRUE, v |-> v]

Return(v) == [exc |-> FALSE, value |-> v]
Raise(type, msg, detail) == [exc |-> TRUE, type |-> type, msg |-> msg, detail |-> detail]
ToolError(msg, detail) == Raise("ToolError", msg, detail)

\* All sequences over alphabet A of length at most n
Strings(A, n) == UNION {[1..k -> A] : k \in 0..n}

---------------------------------------------------------------------------
(* str operations *)

\* s.startswith(p)
StartsWith(s, p) == Len(s) >= Len(p) /\ SubSeq(s, 1, Len(p)) = p

\* s.find(sep): the first index at which sep occurs in s, 0 when it does not
Find(s, sep) ==
    LET hits == {i \in 1..(Len(s) - Len(sep) + 1) : SubSeq(s, i, i + Len(sep) - 1) = sep}
    IN IF hits = {} THEN 0 ELSE CHOOSE i \in hits : \A j \in hits : i <= j

\* s.split(sep, 1)
SplitOnce(s, sep) ==
    LET i == Find(s, sep)
    IN IF i = 0 THEN <<s>>
       ELSE <<SubSeq(s, 1, i - 1), SubSeq(s, i + Len(sep), Len(s))>>

\* s.split(sep)[-1]: what follows the last occurrence of sep, s itself when
\* there is none
RECURSIVE SplitLast(_, _)
SplitLast(s, sep) ==
    LET i == Find(s, sep)
    IN IF i = 0 THEN s ELSE SplitLast(SubSeq(s, i + Len(sep), Len(s)), sep)

\* s.replace(old, new), old non-empty: every occurrence, left to right
RECURSIVE Replace(_, _, _)
Replace(s, old, new) ==
    LET i == Find(s, old)
    IN IF i = 0 THEN s
       ELSE SubSeq(s, 1, i - 1) \o new
            \o Replace(SubSeq(s, i + Len(old), Len(s)), old, new)

\* str.isspace for the characters of the model
Whitespace == {" ", "\t", "\n"}

\* s.strip()
RECURSIVE LStrip(_)
LStrip(s) == IF s # <<>> /\ Head(s) \in Whitespace THEN LStrip(Tail(s)) ELSE s

RECURSIVE RStrip(_)
RStrip(s) ==
    IF s # <<>> /\ s[Len(s)] \in Whitespace THEN RStrip(SubSeq(s, 1, Len(s) - 1)) ELSE s

Strip(s) == RStrip(LStrip(s))

\* s.split(): the maximal runs of non-whitespace characters, in order
RECURSIVE Split(_)
Split(s) ==
    LET t == LStrip(s)
        ws == {i \in 1..Len(t) : t[i] \in Whitespace}
        e == IF ws = {} THEN Len(t) + 1 ELSE CHOOSE i \in ws : \A j \in ws : i <= j
    IN IF t = <<>> THEN <<>>
       ELSE <<SubSeq(t, 1, e - 1)>> \o Split(SubSeq(t, e, Len(t)))

\* str.lower(): the letters of the error texts
UpperLetters == <<"A", "B", "C", "D", "E", "F", "G", "H", "I", "J", "K", "L", "M", "N", "O", "P", "Q", "R", "S", "T", "U", "V", "W", "X", "Y", "Z">>
LowerLetters == <<"a", "b", "c", "d", "e", "f", "g", "h", "i", "j", "k", "l", "m", "n", "o", "p", "q", "r", "s", "t", "u", "v", "w", "x", "y", "z">>
Lower(s) ==
    [i \in 1..Len(s) |->
        IF \E k \in 1..26 : UpperLetters[k] = s[i]
        THEN LowerLetters[CHOOSE k \in 1..26 : UpperLetters[k] = s[i]]
        ELSE s[i]]

\* sub in s
Contains(s, sub) == Find(s, sub) # 0

---------------------------------------------------------------------------
(* Regular expressions, as Python's re.match evaluates them *)

\* \d for the characters of the model
Digits == {"0", "1", "9"}

\* The index of the first character of s at or after i that is not a digit
RECURSIVE DigitsEnd(_, _)
DigitsEnd(s, i) == IF i <= Len(s) /\ s[i] \in Digits THEN DigitsEnd(s, i + 1) ELSE i

\* One optional group (\d+u)? tried at index i: where the match continues, and
\* whether the group took part in it
OptionalPart(s, i, u) ==
    LET j == DigitsEnd(s, i)
    IN IF j > i /\ j <= Len(s) /\ s[j] = u
       THEN [next |-> j + 1, group |-> TRUE]
       ELSE [next |-> i, group |-> FALSE]

\* $ without re.MULTILINE: at the end of the string, and also just before a
\* newline that is the last character
DollarAt(s, i) == i = Len(s) + 1 \/ (i = Len(s) /\ s[i] = "\n")

\* re.match(DELAY_PATTERN, delay): matched, and which groups are not None
DELAY_PATTERN(delay) ==
    LET d == OptionalPart(delay, 1, "d")
        h == OptionalPart(delay, d.next, "h")
        m == OptionalPart(delay, h.next, "m")
        s == OptionalPart(delay, m.next, "s")
    IN [matched |-> DollarAt(delay, s.next),
        groups |-> <<d.group, h.group, m.group, s.group>>]

\* [a-zA-Z0-9._-] for the characters of the model
LabelChars == {"a", "Z", "0", ".", "_", "-"}

\* re.match(r"^[a-zA-Z0-9._-]+$", label)
LABEL_PATTERN(label) ==
    LET ok == {i \in 0..Len(label) : \A j \in 1..i : label[j] \in LabelChars}
        n == CHOOSE i \in ok : \A j \in ok : j <= i
    IN n >= 1 /\ DollarAt(label, n + 1)

---------------------------------------------------------------------------
(* zoneinfo and datetime *)

UTC == <<"U", "T", "C">>
EuropeWarsaw == <<"E", "u", "r", "o", "p", "e", "/", "W", "a", "r", "s", "a", "w">>

\* The IANA keys of the model's time zone database, each with its UTC offset
\* in minutes
KnownZones == {UTC, EuropeWarsaw}
UtcOffsetMinutes(key) == IF key = EuropeWarsaw THEN 60 ELSE 0

\* key.split("/")
RECURSIVE PathParts(_)
PathParts(key) ==
    LET i == Find(key, <<"/">>)
    IN IF i = 0 THEN <<key>>
       ELSE <<SubSeq(key, 1, i - 1)>> \o PathParts(SubSeq(key, i + 1, Len(key)))

\* ZoneInfo(key): a key that is not a normalized relative path below TZPATH (an
\* absolute path, an empty, "." or ".." component) raises ValueError; a
\* well-formed key with no file raises ZoneInfoNotFoundError
ZoneInfo(key) ==
    LET parts == PathParts(key)
    IN IF \E i \in 1..Len(parts) : parts[i] \in {<<>>, <<".">>, <<".", ".">>}
       THEN Raise("ValueError", "ZoneInfo keys must be normalized relative paths", <<>>)
       ELSE IF key \in KnownZones
       THEN Return([key |-> key, utcoffset |-> UtcOffsetMinutes(key)])
       ELSE Raise("ZoneInfoNotFoundError", "No time zone found with key", <<>>)

IsLeap(y) == (y % 4 = 0 /\ y % 100 # 0) \/ y % 400 = 0
DaysInYear(y) == IF IsLeap(y) THEN 366 ELSE 365
DaysInMonth(y, m) ==
    IF m = 2 THEN (IF IsLeap(y) THEN 29 ELSE 28)
    ELSE IF m \in {4, 6, 9, 11} THEN 30 ELSE 31

RECURSIVE DaysBeforeYear(_)
DaysBeforeYear(y) ==
    IF y = 1970 THEN 0
    ELSE IF y > 1970 THEN DaysBeforeYear(y - 1) + DaysInYear(y - 1)
    ELSE DaysBeforeYear(y + 1) - DaysInYear(y)

RECURSIVE DaysBeforeMonth(_, _)
DaysBeforeMonth(y, m) ==
    IF m = 1 THEN 0 ELSE DaysBeforeMonth(y, m - 1) + DaysInMonth(y, m - 1)

\* datetime.strptime(f"{date} {time}", "%Y-%m-%d %H:%M") for a date matching
\* \d{4}-\d{2}-\d{2} and a time matching \d{2}:\d{2}: the naive datetime, as
\* ticks since 1970-01-01 00:00, or ValueError
strptime(date, time) ==
    IF /\ date.y \in 1..9999 /\ date.m \in 1..12
       /\ date.d \in 1..DaysInMonth(date.y, date.m)
       /\ time.h \in 0..23 /\ time.mi \in 0..59
    THEN Return((DaysBeforeYear(date.y) + DaysBeforeMonth(date.y, date.m) + date.d - 1)
                    * TicksPerDay
                + time.h * TicksPerHour + time.mi * TicksPerMinute)
    ELSE Raise("ValueError", "time data does not match format", <<>>)

\* datetime.fromisoformat(datetime_str): a string that parses denotes a local
\* time (ticks) and an optional UTC offset (minutes)
fromisoformat(datetime_str) ==
    IF datetime_str.iso
    THEN Return([local |-> datetime_str.local, tzinfo |-> datetime_str.tz])
    ELSE Raise("ValueError", "Invalid isoformat string", <<>>)

\* An aware datetime's instant, in ticks since the epoch
Instant(dt) == dt.local - dt.tzinfo.v * TicksPerMinute

\* int(dt.timestamp()): whole seconds, truncated toward zero
timestamp(dt) ==
    LET t == Instant(dt)
    IN IF t >= 0 THEN t \div TicksPerSecond ELSE 0 - ((0 - t) \div TicksPerSecond)

---------------------------------------------------------------------------
(* services/qstash.py *)

\* What a function that talks to QStash hands back: its result and the client
\* calls it made
Outcome(result, made) == [result |-> result, calls |-> made]

NtfyUrl == <<"h", "t", "t", "p", "s", ":", "/", "/", "n", "t", "f", "y", ".", "s", "h", "/">>

\* Mutant: a call that raised is made once more
ClientCall_retry(op, kwargs, qstash) ==
    LET answer == IF qstash.ok THEN Return(qstash.value)
                  ELSE Raise("Exception", "QStash API error", <<>>)
        call == [op |-> op, kwargs |-> kwargs, answer |-> answer]
    IN Outcome(answer, IF qstash.ok THEN <<call>> ELSE <<call, call>>)

\* One call of the QStash client: the service answers with an id, or the call
\* raises
ClientCall(op, kwargs, qstash) ==
    LET answer == IF qstash.ok THEN Return(qstash.value)
                  ELSE Raise("Exception", "QStash API error", <<>>)
    IN Outcome(answer, <<[op |-> op, kwargs |-> kwargs, answer |-> answer]>>)

\* Mutant: a relative delay is sent together with a not_before of zero
schedule_message_delay_with_not_before(message, topic, not_before, delay, qstash) ==
    IF not_before = None /\ delay = None
    THEN Outcome(Raise("ValueError", "Either not_before or delay must be provided", <<>>),
                 <<>>)
    ELSE IF environ.QSTASH_TOKEN = None
    THEN Outcome(Raise("KeyError", "QSTASH_TOKEN", <<>>), <<>>)
    ELSE LET url == NtfyUrl \o topic
             kwargs == IF not_before # None
                       THEN [url |-> url, body |-> message, not_before |-> not_before.v]
                       ELSE [url |-> url, body |-> message, not_before |-> 0,
                             delay |-> delay.v]
         IN ClientCall("message.publish", kwargs, qstash)

schedule_message(message, topic, not_before, delay, qstash) ==
    IF not_before = None /\ delay = None
    THEN Outcome(Raise("ValueError", "Either not_before or delay must be provided", <<>>),
                 <<>>)
    ELSE IF environ.QSTASH_TOKEN = None
    THEN Outcome(Raise("KeyError", "QSTASH_TOKEN", <<>>), <<>>)
    ELSE LET url == NtfyUrl \o topic
             kwargs == IF not_before # None
                       THEN [url |-> url, body |-> message, not_before |-> not_before.v]
                       ELSE [url |-> url, body |-> message, delay |-> delay.v]
         IN ClientCall("message.publish", kwargs, qstash)

create_schedule(message, topic, cron, label, qstash) ==
    IF environ.QSTASH_TOKEN = None
    THEN Outcome(Raise("KeyError", "QSTASH_TOKEN", <<>>), <<>>)
    ELSE LET destination == NtfyUrl \o topic
             kwargs == IF label # None
                       THEN [destination |-> destination, cron |-> cron,
                             body |-> message, label |-> label.v]
                       ELSE [destination |-> destination, cron |-> cron,
                             body |-> message]
         IN ClientCall("schedule.create", kwargs, qstash)

CRON_TZ == <<"C", "R", "O", "N", "_", "T", "Z", "=">>

\* Mutant: the prefix is split off with split(None, 1), which also drops the
\* whitespace the expression starts with
_parse_cron_split_whitespace(cron) ==
    IF StartsWith(cron, CRON_TZ)
    THEN LET parts == SplitOnce(cron, <<" ">>)
             timezone == Replace(parts[1], CRON_TZ, <<>>)
             cron_expression == IF Len(parts) > 1 THEN LStrip(parts[2]) ELSE <<>>
         IN <<cron_expression, timezone>>
    ELSE <<cron, UTC>>

_parse_cron(cron) ==
    IF StartsWith(cron, CRON_TZ)
    THEN LET parts == SplitOnce(cron, <<" ">>)
             timezone == Replace(parts[1], CRON_TZ, <<>>)
             cron_expression == IF Len(parts) > 1 THEN parts[2] ELSE <<>>
         IN <<cron_expression, timezone>>
    ELSE <<cron, UTC>>

\* datetime.fromtimestamp(ts / 1000, tz=UTC).isoformat() of a time in
\* milliseconds: the UTC second and the microseconds within it
_format_timestamp(ts) ==
    IF ts = None THEN None
    ELSE Some([second |-> ts.v \div 1000, microsecond |-> (ts.v % 1000) * 1000,
               utcoffset |-> 0])

NtfySh == <<"n", "t", "f", "y", ".", "s", "h">>

\* The loop of list_schedules over the schedules QStash listed
RECURSIVE ListResults(_, _)
ListResults(schedules, topic) ==
    IF schedules = <<>> THEN <<>>
    ELSE LET schedule == Head(schedules)
             rest == ListResults(Tail(schedules), topic)
             schedule_topic == SplitLast(schedule.destination, NtfySh \o <<"/">>)
             parsed == _parse_cron(schedule.cron)
         IN IF Find(schedule.destination, NtfySh) = 0 THEN rest
            ELSE IF topic # None /\ schedule_topic # topic.v THEN rest
            ELSE <<[schedule_id |-> schedule.schedule_id,
                    cron_expression |-> parsed[1],
                    timezone |-> parsed[2],
                    notification_topic |-> schedule_topic,
                    label |-> schedule.label,
                    paused |-> schedule.paused,
                    next_occurrence |-> _format_timestamp(schedule.next_schedule_time),
                    last_occurrence |-> _format_timestamp(schedule.last_schedule_time),
                    notification_body |-> schedule.body]>> \o rest

\* Mutant: a failure of schedule.list is swallowed and no schedule is reported
list_schedules_swallow(topic, qstash) ==
    IF environ.QSTASH_TOKEN = None
    THEN Outcome(Raise("KeyError", "QSTASH_TOKEN", <<>>), <<>>)
    ELSE LET listed == ClientCall("schedule.list", <<>>, qstash)
         IN IF listed.result.exc THEN Outcome(Return(<<>>), listed.calls)
            ELSE Outcome(Return(ListResults(listed.result.value, topic)), listed.calls)

list_schedules(topic, qstash) ==
    IF environ.QSTASH_TOKEN = None
    THEN Outcome(Raise("KeyError", "QSTASH_TOKEN", <<>>), <<>>)
    ELSE LET listed == ClientCall("schedule.list", <<>>, qstash)
         IN IF listed.result.exc THEN listed
            ELSE Outcome(Return(ListResults(listed.result.value, topic)), listed.calls)

\* services/result.py
Ok(value) == [is_ok |-> TRUE, value |-> value]
Err(code, message) == [is_ok |-> FALSE, code |-> code, message |-> message]

NotFoundText == <<"n", "o", "t", " ", "f", "o", "u", "n", "d">>
Text404 == <<"4", "0", "4">>

\* One call of client.schedule.get / delete / pause / resume: it returns, or
\* raises an exception whose text str(e) is the answer's value
ScheduleCall(op, schedule_id, answer) ==
    LET result == IF answer.ok THEN Return(None)
                  ELSE Raise("Exception", answer.value, <<>>)
    IN Outcome(result, <<[op |-> op, kwargs |-> <<schedule_id>>, answer |-> result]>>)

\* Mutant: the text of the error is searched without lower-casing it
LookupFailed_case_sensitive(e) ==
    IF Contains(e.msg, NotFoundText) \/ Contains(e.msg, Text404)
    THEN Err("not_found", <<>>)
    ELSE Err("api_error", e.msg)

\* Mutant: every failed lookup is taken for a missing schedule
LookupFailed_always_not_found(e) == Err("not_found", <<>>)

\* The handler of a failed lookup: not_found when the lower-cased text holds
\* "not found" or "404", api_error with the text otherwise
LookupFailed(e) ==
    LET error_msg == Lower(e.msg)
    IN IF Contains(error_msg, NotFoundText) \/ Contains(error_msg, Text404)
       THEN Err("not_found", <<>>)
       ELSE Err("api_error", e.msg)

qstash_delete(schedule_id, qstash) ==
    IF environ.QSTASH_TOKEN = None
    THEN Outcome(Raise("KeyError", "QSTASH_TOKEN", <<>>), <<>>)
    ELSE LET got == ScheduleCall("schedule.get", schedule_id, qstash.get)
             done == ScheduleCall("schedule.delete", schedule_id, qstash.mutate)
         IN IF got.result.exc
            THEN Outcome(Return(LookupFailed(got.result)), got.calls)
            ELSE IF done.result.exc
            THEN Outcome(Return(Err("api_error", done.result.msg)), got.calls \o done.calls)
            ELSE Outcome(Return(Ok(None)), got.calls \o done.calls)

qstash_pause(schedule_id, qstash) ==
    IF environ.QSTASH_TOKEN = None
    THEN Outcome(Raise("KeyError", "QSTASH_TOKEN", <<>>), <<>>)
    ELSE LET got == ScheduleCall("schedule.get", schedule_id, qstash.get)
             done == ScheduleCall("schedule.pause", schedule_id, qstash.mutate)
         IN IF got.result.exc
            THEN Outcome(Return(LookupFailed(got.result)), got.calls)
            ELSE IF done.result.exc
            THEN Outcome(Return(Err("api_error", done.result.msg)), got.calls \o done.calls)
            ELSE Outcome(Return(Ok(TRUE)), got.calls \o done.calls)

qstash_resume(schedule_id, qstash) ==
    IF environ.QSTASH_TOKEN = None
    THEN Outcome(Raise("KeyError", "QSTASH_TOKEN", <<>>), <<>>)
    ELSE LET got == ScheduleCall("schedule.get", schedule_id, qstash.get)
             done == ScheduleCall("schedule.resume", schedule_id, qstash.mutate)
         IN IF got.result.exc
            THEN Outcome(Return(LookupFailed(got.result)), got.calls)
            ELSE IF done.result.exc
            THEN Outcome(Return(Err("api_error", done.result.msg)), got.calls \o done.calls)
            ELSE Outcome(Return(Ok(FALSE)), got.calls \o done.calls)

---------------------------------------------------------------------------
(* tools/schedule.py: schedule_notification *)

\* Mutant: the separate mode counts as in use only when all three of date,
\* time and timezone are given
_determine_scheduling_mode_all_three(datetime_iso, date, time, timezone, delay) ==
    LET has_datetime == datetime_iso # None
        has_separate == date # None /\ time # None /\ timezone # None
        has_delay == delay # None
        modes_used == Cardinality({m \in {"datetime", "separate", "delay"} :
                          \/ m = "datetime" /\ has_datetime
                          \/ m = "separate" /\ has_separate
                          \/ m = "delay" /\ has_delay})
    IN IF modes_used = 0
       THEN ToolError("No scheduling parameters provided", <<>>)
       ELSE IF modes_used > 1
       THEN ToolError("Multiple scheduling modes provided", <<>>)
       ELSE IF has_datetime THEN Return("datetime")
       ELSE IF has_delay THEN Return("delay")
       ELSE Return("separate")

\* Mutant: the missing parameters are tested with elif, so only the first one
\* is listed
_determine_scheduling_mode_first_missing(datetime_iso, date, time, timezone, delay) ==
    LET has_datetime == datetime_iso # None
        has_separate == date # None \/ time # None \/ timezone # None
        has_delay == delay # None
        modes_used == Cardinality({m \in {"datetime", "separate", "delay"} :
                          \/ m = "datetime" /\ has_datetime
                          \/ m = "separate" /\ has_separate
                          \/ m = "delay" /\ has_delay})
        missing == IF date = None THEN <<"date">>
                   ELSE IF time = None THEN <<"time">>
                   ELSE <<"timezone">>
    IN IF modes_used = 0
       THEN ToolError("No scheduling parameters provided", <<>>)
       ELSE IF modes_used > 1
       THEN ToolError("Multiple scheduling modes provided", <<>>)
       ELSE IF has_datetime THEN Return("datetime")
       ELSE IF has_delay THEN Return("delay")
       ELSE IF date = None \/ time = None \/ timezone = None
       THEN ToolError("Missing required parameters", missing)
       ELSE Return("separate")

_determine_scheduling_mode(datetime_iso, date, time, timezone, delay) ==
    LET has_datetime == datetime_iso # None
        has_separate == date # None \/ time # None \/ timezone # None
        has_delay == delay # None
        modes_used == Cardinality({m \in {"datetime", "separate", "delay"} :
                          \/ m = "datetime" /\ has_datetime
                          \/ m = "separate" /\ has_separate
                          \/ m = "delay" /\ has_delay})
        missing == (IF date = None THEN <<"date">> ELSE <<>>)
                   \o (IF time = None THEN <<"time">> ELSE <<>>)
                   \o (IF timezone = None THEN <<"timezone">> ELSE <<>>)
    IN IF modes_used = 0
       THEN ToolError("No scheduling parameters provided", <<>>)
       ELSE IF modes_used > 1
       THEN ToolError("Multiple scheduling modes provided", <<>>)
       ELSE IF has_datetime THEN Return("datetime")
       ELSE IF has_delay THEN Return("delay")
       ELSE IF date = None \/ time = None \/ timezone = None
       THEN ToolError("Missing required parameters", missing)
       ELSE Return("separate")

\* Mutant: a datetime equal to the clock reading is let through (< for <=)
_parse_iso_datetime_strict_less(datetime_str) ==
    LET parsed == fromisoformat(datetime_str)
        dt == parsed.value
    IN IF parsed.exc
       THEN ToolError("Invalid ISO 8601 datetime format", <<>>)
       ELSE IF dt.tzinfo = None
       THEN ToolError("ISO 8601 datetime must include timezone", <<>>)
       ELSE IF Instant(dt) < now
       THEN ToolError("Scheduled time must be in the future", <<>>)
       ELSE Return(timestamp(dt))

\* Mutant: the in-the-future check comes first, a datetime without an offset
\* being read as UTC
_parse_iso_datetime_future_first(datetime_str) ==
    LET parsed == fromisoformat(datetime_str)
        dt == parsed.value
        utc == [local |-> dt.local,
                tzinfo |-> IF dt.tzinfo = None THEN Some(0) ELSE dt.tzinfo]
    IN IF parsed.exc
       THEN ToolError("Invalid ISO 8601 datetime format", <<>>)
       ELSE IF Instant(utc) <= now
       THEN ToolError("Scheduled time must be in the future", <<>>)
       ELSE IF dt.tzinfo = None
       THEN ToolError("ISO 8601 datetime must include timezone", <<>>)
       ELSE Return(timestamp(dt))

_parse_iso_datetime(datetime_str) ==
    LET parsed == fromisoformat(datetime_str)
        dt == parsed.value
    IN IF parsed.exc
       THEN ToolError("Invalid ISO 8601 datetime format", <<>>)
       ELSE IF dt.tzinfo = None
       THEN ToolError("ISO 8601 datetime must include timezone", <<>>)
       ELSE IF Instant(dt) <= now
       THEN ToolError("Scheduled time must be in the future", <<>>)
       ELSE Return(timestamp(dt))

_parse_separate_params(date, time, timezone) ==
    LET tz_info == ZoneInfo(timezone)
        parsed == strptime(date, time)
        dt == [local |-> parsed.value, tzinfo |-> Some(tz_info.value.utcoffset)]
    IN IF tz_info.exc
       THEN IF tz_info.type = "ZoneInfoNotFoundError"
            THEN ToolError("Invalid timezone", <<>>)
            ELSE tz_info
       ELSE IF parsed.exc
       THEN ToolError("Invalid date/time format", <<>>)
       ELSE IF Instant(dt) <= now
       THEN ToolError("Scheduled time must be in the future", <<>>)
       ELSE Return([not_before |-> timestamp(dt),
                    scheduled_time |-> [date |-> date, time |-> time,
                                        timezone |-> timezone]])

_validate_delay_format(delay) ==
    LET match == DELAY_PATTERN(delay)
    IN IF delay = <<>> \/ ~match.matched
       THEN ToolError("Invalid delay format", <<"Units must be in order: d, h, m, s">>)
       ELSE IF match.matched /\ ~(\E i \in 1..Len(match.groups) : match.groups[i])
       THEN ToolError("Invalid delay format", <<"At least one time unit is required">>)
       ELSE Return(None)

_schedule_with_not_before(message, topic, not_before, scheduled_time, qstash) ==
    LET sent == schedule_message(message, topic, Some(not_before), None, qstash)
    IN IF sent.result.exc THEN sent
       ELSE Outcome(Return([success |-> TRUE,
                            message_id |-> sent.result.value,
                            scheduled_time |-> scheduled_time,
                            confirmation |-> <<"Notification scheduled for", scheduled_time>>]),
                    sent.calls)

\* Mutant: the message is published before the delay is validated
_schedule_with_delay_publish_first(message, topic, delay, qstash) ==
    LET valid == _validate_delay_format(delay)
        sent == schedule_message(message, topic, None, Some(delay), qstash)
    IN IF sent.result.exc THEN sent
       ELSE IF valid.exc THEN Outcome(valid, sent.calls)
       ELSE Outcome(Return([success |-> TRUE,
                            message_id |-> sent.result.value,
                            delay |-> delay,
                            confirmation |-> <<"Notification scheduled with delay:", delay>>]),
                    sent.calls)

_schedule_with_delay(message, topic, delay, qstash) ==
    LET valid == _validate_delay_format(delay)
        sent == schedule_message(message, topic, None, Some(delay), qstash)
    IN IF valid.exc THEN Outcome(valid, <<>>)
       ELSE IF sent.result.exc THEN sent
       ELSE Outcome(Return([success |-> TRUE,
                            message_id |-> sent.result.value,
                            delay |-> delay,
                            confirmation |-> <<"Notification scheduled with delay:", delay>>]),
                    sent.calls)

schedule_notification(message, notification_topic, datetime_iso, date, time, timezone, delay, qstash) ==
    LET mode == _determine_scheduling_mode(datetime_iso, date, time, timezone, delay)
        iso == _parse_iso_datetime(datetime_iso.v)
        sep == _parse_separate_params(date.v, time.v, timezone.v)
    IN IF mode.exc THEN Outcome(mode, <<>>)
       ELSE IF mode.value = "datetime"
       THEN IF iso.exc THEN Outcome(iso, <<>>)
            ELSE _schedule_with_not_before(message, notification_topic, iso.value,
                                           datetime_iso.v, qstash)
       ELSE IF mode.value = "separate"
       THEN IF sep.exc THEN Outcome(sep, <<>>)
            ELSE _schedule_with_not_before(message, notification_topic,
                                           sep.value.not_before,
                                           sep.value.scheduled_time, qstash)
       ELSE _schedule_with_delay(message, notification_topic, delay.v, qstash)

---------------------------------------------------------------------------
(* tools/schedule.py: schedule_cron_notification *)

\* Mutant: only too few fields are refused (< for !=)
_validate_cron_too_few(cron) ==
    LET fields == Split(Strip(cron))
    IN IF Len(fields) < 5
       THEN ToolError("Invalid cron expression", <<"Cron requires exactly 5 fields">>)
       ELSE Return(None)

_validate_cron(cron) ==
    LET fields == Split(Strip(cron))
    IN IF Len(fields) # 5
       THEN ToolError("Invalid cron expression", <<"Cron requires exactly 5 fields">>)
       ELSE Return(None)

_validate_timezone(timezone) ==
    LET tz_info == ZoneInfo(timezone)
    IN IF tz_info.exc
       THEN IF tz_info.type = "ZoneInfoNotFoundError"
            THEN ToolError("Invalid timezone", <<>>)
            ELSE tz_info
       ELSE Return(None)

_validate_label(label) ==
    IF ~LABEL_PATTERN(label)
    THEN ToolError("Invalid label", <<>>)
    ELSE Return(None)

\* Mutant: the cron string is built from the stripped expression
schedule_cron_notification_stripped(message, notification_topic, cron, timezone, label, qstash) ==
    LET cron_ok == _validate_cron(cron)
        tz_ok == _validate_timezone(timezone)
        label_ok == _validate_label(label.v)
        cron_with_tz == CRON_TZ \o timezone \o <<" ">> \o Strip(cron)
        created == create_schedule(message, notification_topic, cron_with_tz, label, qstash)
    IN IF cron_ok.exc THEN Outcome(cron_ok, <<>>)
       ELSE IF tz_ok.exc THEN Outcome(tz_ok, <<>>)
       ELSE IF label # None /\ label_ok.exc THEN Outcome(label_ok, <<>>)
       ELSE IF created.result.exc THEN created
       ELSE Outcome(Return([success |-> TRUE,
                            schedule_id |-> created.result.value,
                            cron |-> cron_with_tz,
                            confirmation |-> <<"Cron schedule created:", cron_with_tz>>]),
                    created.calls)

schedule_cron_notification(message, notification_topic, cron, timezone, label, qstash) ==
    LET cron_ok == _validate_cron(cron)
        tz_ok == _validate_timezone(timezone)
        label_ok == _validate_label(label.v)
        cron_with_tz == CRON_TZ \o timezone \o <<" ">> \o cron
        created == create_schedule(message, notification_topic, cron_with_tz, label, qstash)
    IN IF cron_ok.exc THEN Outcome(cron_ok, <<>>)
       ELSE IF tz_ok.exc THEN Outcome(tz_ok, <<>>)
       ELSE IF label # None /\ label_ok.exc THEN Outcome(label_ok, <<>>)
       ELSE IF created.result.exc THEN created
       ELSE Outcome(Return([success |-> TRUE,
                            schedule_id |-> created.result.value,
                            cron |-> cron_with_tz,
                            confirmation |-> <<"Cron schedule created:", cron_with_tz>>]),
                    created.calls)

---------------------------------------------------------------------------
(* tools/schedule.py: list_scheduled_notifications *)

list_scheduled_notifications(notification_topic, qstash) ==
    LET listed == list_schedules(notification_topic, qstash)
        schedules == listed.result.value
    IN IF listed.result.exc THEN listed
       ELSE Outcome(Return([schedules |-> schedules, count |-> Len(schedules)]),
                    listed.calls)

---------------------------------------------------------------------------
(* tools/schedule.py: delete_schedule, pause_schedule, resume_schedule *)

\* The formatted texts are kept in parts: the fixed text and the value
\* interpolated into it

delete_schedule(schedule_id, qstash) ==
    LET called == qstash_delete(schedule_id, qstash)
        result == called.result.value
    IN IF called.result.exc THEN called
       ELSE IF result.is_ok
       THEN Outcome(Return([success |-> TRUE, schedule_id |-> schedule_id,
                            confirmation |-> [text |-> "Schedule deleted successfully",
                                              detail |-> schedule_id]]),
                    called.calls)
       ELSE IF result.code = "not_found"
       THEN Outcome(Return([success |-> FALSE, schedule_id |-> schedule_id,
                            error |-> [text |-> "Schedule not found",
                                       detail |-> schedule_id,
                                       hint |-> "It may have already been deleted or the ID is incorrect."]]),
                    called.calls)
       ELSE Outcome(Return([success |-> FALSE, schedule_id |-> schedule_id,
                            error |-> [text |-> "Failed to delete schedule",
                                       detail |-> result.message,
                                       hint |-> ""]]),
                    called.calls)

pause_schedule(schedule_id, qstash) ==
    LET called == qstash_pause(schedule_id, qstash)
        result == called.result.value
    IN IF called.result.exc THEN called
       ELSE IF result.is_ok
       THEN Outcome(Return([success |-> TRUE, schedule_id |-> schedule_id, paused |-> TRUE,
                            confirmation |-> [text |-> "Schedule paused successfully",
                                              detail |-> schedule_id]]),
                    called.calls)
       ELSE IF result.code = "not_found"
       THEN Outcome(Return([success |-> FALSE, schedule_id |-> schedule_id,
                            error |-> [text |-> "Schedule not found",
                                       detail |-> schedule_id,
                                       hint |-> "It may have been deleted or the ID is incorrect."]]),
                    called.calls)
       ELSE Outcome(Return([success |-> FALSE, schedule_id |-> schedule_id,
                            error |-> [text |-> "Failed to pause schedule",
                                       detail |-> result.message,
                                       hint |-> ""]]),
                    called.calls)

resume_schedule(schedule_id, qstash) ==
    LET called == qstash_resume(schedule_id, qstash)
        result == called.result.value
    IN IF called.result.exc THEN called
       ELSE IF result.is_ok
       THEN Outcome(Return([success |-> TRUE, schedule_id |-> schedule_id, paused |-> FALSE,
                            confirmation |-> [text |-> "Schedule resumed successfully",
                                              detail |-> schedule_id]]),
                    called.calls)
       ELSE IF result.code = "not_found"
       THEN Outcome(Return([success |-> FALSE, schedule_id |-> schedule_id,
                            error |-> [text |-> "Schedule not found",
                                       detail |-> schedule_id,
                                       hint |-> "It may have been deleted or the ID is incorrect."]]),
                    called.calls)
       ELSE Outcome(Return([success |-> FALSE, schedule_id |-> schedule_id,
                            error |-> [text |-> "Failed to resume schedule",
                                       detail |-> result.message,
                                       hint |-> ""]]),
                    called.calls)

---------------------------------------------------------------------------
(* services/ntfy.py and tools/push_notification.py *)

NtfyEndpoint == "https://ntfy.sh/"

\* response.raise_for_status(): a 4xx or 5xx status raises HTTPStatusError
IsErrorStatus(status_code) == status_code >= 400

\* Mutant: markdown is added when it is truthy, so that False is dropped
Payload_markdown_truthy(message, topic, title, priority, tags, markdown, click, icon, attach, filename, actions) ==
    LET fields == [title |-> title, priority |-> priority, tags |-> tags,
                   markdown |-> markdown, click |-> click, icon |-> icon,
                   attach |-> attach, filename |-> filename, actions |-> actions]
        keys == {"topic", "message"}
                    \cup {k \in DOMAIN fields :
                              fields[k] # None /\ (k = "markdown" => fields[k].v)}
    IN [k \in keys |-> IF k = "topic" THEN topic
                       ELSE IF k = "message" THEN message
                       ELSE fields[k].v]

\* The payload holds topic and message and every field that is not None
Payload(message, topic, title, priority, tags, markdown, click, icon, attach, filename, actions) ==
    LET fields == [title |-> title, priority |-> priority, tags |-> tags,
                   markdown |-> markdown, click |-> click, icon |-> icon,
                   attach |-> attach, filename |-> filename, actions |-> actions]
        keys == {"topic", "message"} \cup {k \in DOMAIN fields : fields[k] # None}
    IN [k \in keys |-> IF k = "topic" THEN topic
                       ELSE IF k = "message" THEN message
                       ELSE fields[k].v]

\* Mutant: the status of the response is not looked at
Post_any_status(payload, ntfy) ==
    LET result == IF ntfy.raised THEN Raise(ntfy.type, ntfy.text, <<>>)
                  ELSE Return(ntfy.json)
    IN Outcome(result,
               <<[op |-> "ntfy.post",
                  kwargs |-> [url |-> NtfyEndpoint, content |-> payload,
                              headers |-> [ContentType |-> "application/json"]],
                  reply |-> ntfy, answer |-> result]>>)

\* The payload is posted once as JSON; the post may raise; an error status
\* raises HTTPStatusError; otherwise the JSON body of the response is returned
Post(payload, ntfy) ==
    LET result == IF ntfy.raised THEN Raise(ntfy.type, ntfy.text, <<>>)
                  ELSE IF IsErrorStatus(ntfy.status_code)
                  THEN Raise("HTTPStatusError", ntfy.text, ntfy.status_code)
                  ELSE Return(ntfy.json)
    IN Outcome(result,
               <<[op |-> "ntfy.post",
                  kwargs |-> [url |-> NtfyEndpoint, content |-> payload,
                              headers |-> [ContentType |-> "application/json"]],
                  reply |-> ntfy, answer |-> result]>>)

send_notification(message, topic, title, priority, tags, markdown, click, icon, attach, filename, actions, ntfy) ==
    Post(Payload(message, topic, title, priority, tags, markdown, click, icon,
                 attach, filename, actions),
         ntfy)

\* The arguments of a call are bound to the parameters before the handler
\* runs: message and notification_topic have no default, priority is an
\* integer from 1 to 5
BindPushArguments(message, notification_topic, priority) ==
    IF message = None
    THEN Raise("ValidationError", "Missing required argument", "message")
    ELSE IF notification_topic = None
    THEN Raise("ValidationError", "Missing required argument", "notification_topic")
    ELSE IF priority # None /\ ~(priority.v >= 1 /\ priority.v <= 5)
    THEN Raise("ValidationError", "Input should be from 1 to 5", "priority")
    ELSE Return(None)

send_push_notification(message, notification_topic, title, priority, tags, markdown, click, icon, attach, filename, actions, ntfy) ==
    LET bound == BindPushArguments(message, notification_topic, priority)
        sent == send_notification(message.v, notification_topic.v, title, priority,
                                  tags, markdown, click, icon, attach, filename,
                                  actions, ntfy)
        response_id == IF "id" \in DOMAIN sent.result.value
                       THEN Some(sent.result.value.id) ELSE None
    IN IF bound.exc THEN Outcome(bound, <<>>)
       ELSE IF ~sent.result.exc
       THEN Outcome(Return([success |-> TRUE, id |-> response_id,
                            confirmation |-> "Push notification sent successfully"]),
                    sent.calls)
       ELSE IF sent.result.type = "ConnectError"
       THEN Outcome(ToolError("Failed to connect to notification service",
                              sent.result.msg),
                    sent.calls)
       ELSE IF sent.result.type = "HTTPStatusError"
       THEN Outcome(ToolError("Notification service error",
                              <<sent.result.detail, sent.result.msg>>),
                    sent.calls)
       ELSE sent

---------------------------------------------------------------------------
(* config.py *)

REQUIRED_ENV_VARS == <<"QSTASH_TOKEN">>

\* os.environ.get(var, ""): the value, or the empty string when unset
EnvironGet(var, default) == IF environ[var] = None THEN default ELSE environ[var].v

get_jwt_secret ==
    IF EnvironGet("JWT_SECRET", "") = "" THEN None ELSE Some(environ.JWT_SECRET.v)

\* Mutant: the value is compared as written (no .lower())
is_auth_disabled_case_sensitive == EnvironGet("AUTH_DISABLED", <<>>) = <<"t", "r", "u", "e">>

is_auth_disabled == Lower(EnvironGet("AUTH_DISABLED", <<>>)) = <<"t", "r", "u", "e">>

\* Mutant: JWT_SECRET is reported whether or not authentication is disabled
get_missing_env_vars_always_checks_secret ==
    SelectSeq(REQUIRED_ENV_VARS, LAMBDA var : EnvironGet(var, "") = "")
        \o (IF get_jwt_secret = None THEN <<"JWT_SECRET">> ELSE <<>>)

get_missing_env_vars ==
    SelectSeq(REQUIRED_ENV_VARS, LAMBDA var : EnvironGet(var, "") = "")
        \o (IF ~is_auth_disabled /\ get_jwt_secret = None THEN <<"JWT_SECRET">> ELSE <<>>)

---------------------------------------------------------------------------
(* tools/health.py *)

health ==
    LET missing == get_missing_env_vars
    IN IF missing # <<>>
       THEN ToolError("Missing or empty environment variables", missing)
       ELSE Return([status |-> "healthy",
                    current_time_utc |-> now,
                    current_time_ms |-> (now * 1000) \div TicksPerSecond])

---------------------------------------------------------------------------
(* server.py *)

create_auth ==
    IF is_auth_disabled
    THEN Return(None)
    ELSE LET secret == get_jwt_secret
         IN IF secret = None
            THEN Raise("ValueError", "JWT_SECRET is required when authentication is enabled",
                       <<>>)
            ELSE Return(Some([public_key |-> secret.v, issuer |-> "cronty-mcp",
                              algorithm |-> "HS512"]))

\* The module body: FastMCP("Cronty MCP", auth=create_auth()); an exception of
\* create_auth ends the import and no server exists
FastMCP ==
    LET auth == create_auth
    IN IF auth.exc THEN auth ELSE Return([name |-> "Cronty MCP", auth |-> auth.value])

\* The functions registered with mcp.tool
RegisteredTools ==
    {"delete_schedule", "get_current_time", "list_scheduled_notifications",
     "pause_schedule", "resume_schedule", "schedule_cron_notification",
     "schedule_notification", "send_push_notification"}

\* Client.call_tool(name, {}) for a tool that takes no arguments: an
\* unregistered name is refused by the server
call_tool(name, tool) ==
    IF name \in RegisteredTools THEN tool ELSE ToolError("Unknown tool", <<name>>)

---------------------------------------------------------------------------
(* cronty/cli/token.py *)

ISSUER == "cronty-mcp"
ALGORITHM == "HS512"

DigitValue(c) == CASE c = "0" -> 0 [] c = "1" -> 1 [] c = "9" -> 9

RECURSIVE int(_)
int(digits) ==
    IF digits = <<>> THEN 0
    ELSE 10 * int(SubSeq(digits, 1, Len(digits) - 1)) + DigitValue(digits[Len(digits)])

DurationUnits == {"d", "h", "m", "s", "y"}

\* re.match(r"^(\d+)(d|h|m|s|y)$", duration)
DURATION_PATTERN(duration) ==
    LET e == DigitsEnd(duration, 1)
        matched == e > 1 /\ e <= Len(duration) /\ duration[e] \in DurationUnits
                   /\ DollarAt(duration, e + 1)
    IN IF matched
       THEN [matched |-> TRUE, value |-> SubSeq(duration, 1, e - 1), unit |-> duration[e]]
       ELSE [matched |-> FALSE]

\* timedelta(days=, seconds=), normalised as datetime.timedelta keeps it
timedelta(days, seconds) ==
    [days |-> days + seconds \div (24 * 60 * 60), seconds |-> seconds % (24 * 60 * 60)]

parse_duration(duration) ==
    LET match == DURATION_PATTERN(duration)
        value == int(match.value)
    IN IF ~match.matched
       THEN Raise("ValueError", "Invalid duration format", duration)
       ELSE Return(CASE match.unit = "d" -> timedelta(value, 0)
                     [] match.unit = "h" -> timedelta(0, value * 60 * 60)
                     [] match.unit = "m" -> timedelta(0, value * 60)
                     [] match.unit = "s" -> timedelta(0, value)
                     [] match.unit = "y" -> timedelta(value * 365, 0))

\* print(text, file=...)
PrintCall(file, text) ==
    [op |-> "print", kwargs |-> [file |-> file, text |-> text], answer |-> Return(None)]

\* sys.exit(status)
SystemExit(status) == Raise("SystemExit", "exit", status)

\* datetime.now(UTC) + delta, as days, seconds and ticks below the second
DatetimePlus(ticks, delta) ==
    LET seconds == ticks \div TicksPerSecond + delta.seconds
    IN [days |-> delta.days + seconds \div (24 * 60 * 60),
        seconds |-> seconds % (24 * 60 * 60),
        ticks |-> ticks % TicksPerSecond]

\* jwt: a datetime claim becomes whole seconds since the epoch
NumericDate(dt) == [days |-> dt.days, seconds |-> dt.seconds]

\* jwt.encode(payload, key, algorithm)
JwtEncode(payload, key, algorithm) ==
    [header |-> [alg |-> algorithm, typ |-> "JWT"],
     payload |-> [sub |-> payload.sub, iss |-> payload.iss,
                  iat |-> NumericDate(payload.iat), exp |-> NumericDate(payload.exp)],
     signature |-> [alg |-> algorithm, key |-> key]]

\* Mutant: exp is the time of issue
issue_token_expires_at_once(email, expires_in) ==
    LET secret == get_jwt_secret
        expiry_delta == parse_duration(expires_in)
        payload == [sub |-> email, iss |-> ISSUER,
                    iat |-> DatetimePlus(now, timedelta(0, 0)),
                    exp |-> DatetimePlus(now, timedelta(0, 0))]
    IN IF secret = None
       THEN Outcome(SystemExit(1),
                    <<PrintCall("stderr", "Error: JWT_SECRET environment variable is required")>>)
       ELSE IF expiry_delta.exc
       THEN Outcome(SystemExit(1), <<PrintCall("stderr", expiry_delta.msg)>>)
       ELSE Outcome(Return(None),
                    <<[op |-> "print",
                       kwargs |-> [file |-> "stdout",
                                   token |-> JwtEncode(payload, secret.v, ALGORITHM)],
                       answer |-> Return(None)]>>)

issue_token(email, expires_in) ==
    LET secret == get_jwt_secret
        expiry_delta == parse_duration(expires_in)
        payload == [sub |-> email, iss |-> ISSUER,
                    iat |-> DatetimePlus(now, timedelta(0, 0)),
                    exp |-> DatetimePlus(now, expiry_delta.value)]
    IN IF secret = None
       THEN Outcome(SystemExit(1),
                    <<PrintCall("stderr", "Error: JWT_SECRET environment variable is required")>>)
       ELSE IF expiry_delta.exc
       THEN Outcome(SystemExit(1), <<PrintCall("stderr", expiry_delta.msg)>>)
       ELSE Outcome(Return(None),
                    <<[op |-> "print",
                       kwargs |-> [file |-> "stdout",
                                   token |-> JwtEncode(payload, secret.v, ALGORITHM)],
                       answer |-> Return(None)]>>)

---------------------------------------------------------------------------
(* The tool calls the model makes *)

Opt(S) == {None} \cup {Some(v) : v \in S}

Messages == {"Call mom"}
Topics == {<<"m", "y", "-", "a", "l", "e", "r", "t", "s">>}

InvalidZone == <<"I", "n", "v", "a", "l", "i", "d", "/", "Z", "o", "n", "e">>
Timezones ==
    {UTC, EuropeWarsaw, InvalidZone, <<>>, <<"/", "U", "T", "C">>,
     <<".", ".", "/", "U", "T", "C">>}

\* datetime strings: one that does not parse, and those that parse to a local
\* time around the clock's range, with no offset, +00:00 or +01:00
LocalTicks == (0..(MaxNow + 1)) \cup {TicksPerHour + k : k \in 0..(MaxNow + 1)}
DatetimeStrings ==
    {[iso |-> FALSE, local |-> 0, tz |-> None]}
    \cup [iso : {TRUE}, local : LocalTicks, tz : {None, Some(0), Some(60)}]

\* YYYY-MM-DD strings, by their digits
Dates ==
    {[y |-> 1970, m |-> 1, d |-> 1], [y |-> 1970, m |-> 1, d |-> 2],
     [y |-> 1970, m |-> 2, d |-> 30], [y |-> 1970, m |-> 13, d |-> 1],
     [y |-> 0, m |-> 1, d |-> 1]}

\* HH:MM strings, by their digits
Times ==
    {[h |-> 0, mi |-> 0], [h |-> 0, mi |-> 1], [h |-> 1, mi |-> 0],
     [h |-> 1, mi |-> 1], [h |-> 24, mi |-> 0], [h |-> 0, mi |-> 60]}

DelayAlphabet == {"1", "d", "h", "m", "s", "\n"}
Delays == Strings(DelayAlphabet, MaxDelayLen)

SampleDatetime == [iso |-> TRUE, local |-> TicksPerHour, tz |-> Some(0)]
SampleDate == [y |-> 1970, m |-> 1, d |-> 2]
SampleTime == [h |-> 0, mi |-> 1]
SampleDelay == <<"1", "d">>

ScheduleNotificationRequests ==
    [tool : {"schedule_notification"}, message : Messages, notification_topic : Topics,
     datetime_iso : {None, Some(SampleDatetime)}, date : {None, Some(SampleDate)},
     time : {None, Some(SampleTime)}, timezone : {None, Some(UTC)},
     delay : {None, Some(SampleDelay)}]
    \cup
    [tool : {"schedule_notification"}, message : Messages, notification_topic : Topics,
     datetime_iso : Opt(DatetimeStrings), date : {None}, time : {None},
     timezone : {None}, delay : {None}]
    \cup
    [tool : {"schedule_notification"}, message : Messages, notification_topic : Topics,
     datetime_iso : {None}, date : Opt(Dates), time : Opt(Times),
     timezone : Opt(Timezones), delay : {None}]
    \cup
    [tool : {"schedule_notification"}, message : Messages, notification_topic : Topics,
     datetime_iso : {None}, date : {None}, time : {None}, timezone : {None},
     delay : Opt(Delays)]

CronAlphabet == {"*", " "}
SampleCrons ==
    {<<"0", " ", "9", " ", "*", " ", "*", " ", "1">>,
     <<" ", "0", "\t", "9", " ", " ", "*", " ", "*", " ", "1", "\n">>,
     <<"*", " ", "*", " ", "*">>}
Crons == Strings(CronAlphabet, MaxCronLen)

LabelAlphabet == {"a", "-", " ", "\n"}
Labels == Strings(LabelAlphabet, MaxLabelLen)

ScheduleCronRequests ==
    [tool : {"schedule_cron_notification"}, message : Messages,
     notification_topic : Topics, cron : Crons, timezone : {UTC}, label : {None}]
    \cup
    [tool : {"schedule_cron_notification"}, message : Messages,
     notification_topic : Topics, cron : SampleCrons, timezone : Timezones,
     label : Opt(Labels)]

\* How QStash answers the call of one invocation
QStashAnswers ==
    {[ok |-> TRUE, value |-> "id-1"], [ok |-> TRUE, value |-> "id-2"],
     [ok |-> FALSE, value |-> ""]}

\* The schedules QStash may hold, this server's and other clients': their
\* destinations and cron strings
OtherTopic == <<"o", "p", "s">>
Destinations ==
    {NtfyUrl \o t : t \in Topics \cup {OtherTopic}}
    \cup {<<"h", "t", "t", "p", "s", ":", "/", "/", "x", ".", "i", "o", "/", "h">>,
          <<"h", "t", "t", "p", "s", ":", "/", "/">> \o NtfySh}
    \cup {<<"h", "t", "t", "p", "s", ":", "/", "/", "x", ".", "i", "o", "/">>
              \o NtfySh \o <<"/">> \o t : t \in Topics}
StoredCrons ==
    {CRON_TZ \o tz \o <<" ">> \o c : tz \in KnownZones, c \in SampleCrons}
    \cup SampleCrons \cup {CRON_TZ \o UTC}

QStashSchedule(destination, cron) ==
    [schedule_id |-> <<"scd", destination, cron>>,
     destination |-> destination,
     cron |-> cron,
     label |-> IF StartsWith(destination, NtfyUrl) THEN Some(<<"a">>) ELSE None,
     paused |-> ~StartsWith(cron, CRON_TZ),
     next_schedule_time |-> IF StartsWith(cron, CRON_TZ) THEN Some(1500) ELSE None,
     last_schedule_time |-> None,
     body |-> IF StartsWith(destination, NtfyUrl) THEN Some("Call mom") ELSE None]

QStashSchedules ==
    {QStashSchedule(d, c) : d \in {NtfyUrl \o t : t \in Topics}, c \in StoredCrons}
    \cup {QStashSchedule(d, CRON_TZ \o UTC \o <<" ">> \o c) :
              d \in Destinations, c \in SampleCrons}

ListRequests ==
    [tool : {"list_scheduled_notifications"},
     notification_topic : Opt(Topics \cup {OtherTopic})]

\* How QStash answers schedule.list
QStashListings ==
    {[ok |-> TRUE, value |-> l] : l \in Strings(QStashSchedules, MaxListed)}
    \cup {[ok |-> FALSE, value |-> <<>>]}

Idle == [tool |-> "idle"]
NoResponse == [exc |-> FALSE, pending |-> TRUE]

\* The management invocations that may overlap, and one that is not running
Slots == 1..MaxInvocations
NotRunning == [pc |-> "idle"]

\* The schedule ids the management tools are called with
ScheduleIdArgs == {<<"s", "c", "d", "_", "1">>, <<"s", "c", "d", "_", "2">>}

\* The texts of the errors the QStash client raises
ErrorTexts ==
    {<<"S", "c", "h", "e", "d", "u", "l", "e", " ", "n", "o", "t", " ", "f", "o", "u", "n", "d">>,
     <<"4", "0", "4", " ", "N", "o", "t", " ", "F", "o", "u", "n", "d">>,
     <<"N", "O", "T", " ", "F", "O", "U", "N", "D">>,
     <<"H", "T", "T", "P", " ", "4", "0", "4">>,
     <<"n", "o", "t", "f", "o", "u", "n", "d">>,
     <<"4", "0", " ", "4">>,
     <<"C", "o", "n", "n", "e", "c", "t", "i", "o", "n", " ", "t", "i", "m", "e", "o", "u", "t">>,
     <<>>}

\* How QStash answers one schedule.get / delete / pause / resume call
ScheduleAnswers ==
    {[ok |-> TRUE, value |-> <<>>]} \cup {[ok |-> FALSE, value |-> t] : t \in ErrorTexts}

\* How QStash answers the lookup and the mutating call of one invocation
QStashManageAnswers == [get : ScheduleAnswers, mutate : ScheduleAnswers]

DeleteRequests == [tool : {"delete_schedule"}, schedule_id : ScheduleIdArgs]
PauseRequests == [tool : {"pause_schedule"}, schedule_id : ScheduleIdArgs]
ResumeRequests == [tool : {"resume_schedule"}, schedule_id : ScheduleIdArgs]

\* The topic the environment of the tests configures
TestTopic == <<"t", "e", "s", "t", "-", "t", "o", "p", "i", "c">>

\* The optional fields of send_push_notification: absent, a usual value, and
\* values that are falsy or out of range
SampleActions == <<[action |-> "view", label |-> "View", url |-> "https://example.com"]>>
PushRequests ==
    [tool : {"send_push_notification"}, message : {Some("Build completed")},
     notification_topic : {Some(TestTopic)},
     title : {None, Some("CI Pipeline")}, priority : {None, Some(4)},
     tags : {None, Some(<<"white_check_mark", "test">>)}, markdown : {None, Some(TRUE)},
     click : {None, Some("https://example.com")},
     icon : {None, Some("https://example.com/icon.png")},
     attach : {None, Some("https://example.com/report.pdf")},
     filename : {None, Some("report.pdf")}, actions : {None, Some(SampleActions)}]
    \cup
    [tool : {"send_push_notification"}, message : Opt({"Build completed"}),
     notification_topic : Opt(Topics),
     title : {None, Some("")}, priority : {None, Some(0), Some(1), Some(5), Some(6)},
     tags : {None, Some(<<>>)}, markdown : {None, Some(FALSE)},
     click : {None}, icon : {None}, attach : {None}, filename : {None},
     actions : {None, Some(<<>>)}]

\* What the POST to ntfy.sh does: it raises (no connection, or a timeout), or
\* it returns a response with a status, a text and a JSON body
NtfyAnswers ==
    {[raised |-> TRUE, type |-> "ConnectError", text |-> "Connection refused"],
     [raised |-> TRUE, type |-> "ReadTimeout", text |-> "The read operation timed out"],
     [raised |-> FALSE, status_code |-> 200, text |-> "{}",
      json |-> [id |-> "test-notification-id"]],
     [raised |-> FALSE, status_code |-> 200, text |-> "{}", json |-> [time |-> 1]],
     [raised |-> FALSE, status_code |-> 404, text |-> "Not Found", json |-> [code |-> 404]],
     [raised |-> FALSE, status_code |-> 500, text |-> "Internal Server Error",
      json |-> [code |-> 500]]}

---------------------------------------------------------------------------
(* The server *)

Init ==
    /\ environ \in [QSTASH_TOKEN : {None, Some("test-token")},
                     NTFY_TOPIC : {Some(TestTopic)}]
    /\ now = 0
    /\ request = Idle
    /\ calls = <<>>
    /\ response = NoResponse
    /\ store = [id \in ScheduleIdArgs |-> "active"]
    /\ inflight = [slot \in Slots |-> NotRunning]

\* The clock advances between tool calls
Tick ==
    /\ request = Idle
    /\ now < MaxNow
    /\ now' = now + 1
    /\ UNCHANGED <<environ, request, calls, response, store, inflight>>

CallScheduleNotification ==
    /\ request = Idle
    /\ \E req \in ScheduleNotificationRequests, qstash \in QStashAnswers :
           LET out == schedule_notification(req.message, req.notification_topic,
                                            req.datetime_iso, req.date, req.time,
                                            req.timezone, req.delay, qstash)
           IN /\ request' = req
              /\ calls' = out.calls
              /\ response' = out.result
    /\ UNCHANGED <<environ, now, store, inflight>>

CallScheduleCronNotification ==
    /\ request = Idle
    /\ \E req \in ScheduleCronRequests, qstash \in QStashAnswers :
           LET out == schedule_cron_notification(req.message, req.notification_topic,
                                                 req.cron, req.timezone, req.label,
                                                 qstash)
           IN /\ request' = req
              /\ calls' = out.calls
              /\ response' = out.result
    /\ UNCHANGED <<environ, now, store, inflight>>

CallListScheduledNotifications ==
    /\ request = Idle
    /\ \E req \in ListRequests, qstash \in QStashListings :
           LET out == list_scheduled_notifications(req.notification_topic, qstash)
           IN /\ request' = req
              /\ calls' = out.calls
              /\ response' = out.result
    /\ UNCHANGED <<environ, now, store, inflight>>

CallDeleteSchedule ==
    /\ request = Idle
    /\ \E req \in DeleteRequests, qstash \in QStashManageAnswers :
           LET out == delete_schedule(req.schedule_id, qstash)
           IN /\ request' = req
              /\ calls' = out.calls
              /\ response' = out.result
    /\ UNCHANGED <<environ, now, store, inflight>>

CallPauseSchedule ==
    /\ request = Idle
    /\ \E req \in PauseRequests, qstash \in QStashManageAnswers :
           LET out == pause_schedule(req.schedule_id, qstash)
           IN /\ request' = req
              /\ calls' = out.calls
              /\ response' = out.result
    /\ UNCHANGED <<environ, now, store, inflight>>

CallResumeSchedule ==
    /\ request = Idle
    /\ \E req \in ResumeRequests, qstash \in QStashManageAnswers :
           LET out == resume_schedule(req.schedule_id, qstash)
           IN /\ request' = req
              /\ calls' = out.calls
              /\ response' = out.result
    /\ UNCHANGED <<environ, now, store, inflight>>

\* Mutant: the handler keeps the topic of the call as the configured topic
CallSendPushNotification_keeps_topic ==
    /\ request = Idle
    /\ \E req \in PushRequests, ntfy \in NtfyAnswers :
           LET out == send_push_notification(req.message, req.notification_topic,
                                             req.title, req.priority, req.tags,
                                             req.markdown, req.click, req.icon,
                                             req.attach, req.filename, req.actions,
                                             ntfy)
           IN /\ request' = req
              /\ calls' = out.calls
              /\ response' = out.result
              /\ environ' = IF req.notification_topic = None THEN environ
                            ELSE [environ EXCEPT !.NTFY_TOPIC = req.notification_topic]
    /\ UNCHANGED <<now, store, inflight>>

CallSendPushNotification ==
    /\ request = Idle
    /\ \E req \in PushRequests, ntfy \in NtfyAnswers :
           LET out == send_push_notification(req.message, req.notification_topic,
                                             req.title, req.priority, req.tags,
                                             req.markdown, req.click, req.icon,
                                             req.attach, req.filename, req.actions,
                                             ntfy)
           IN /\ request' = req
              /\ calls' = out.calls
              /\ response' = out.result
    /\ UNCHANGED <<environ, now, store, inflight>>

\* The response goes back to the MCP client; the handler keeps nothing
Deliver ==
    /\ request # Idle
    /\ request' = Idle
    /\ calls' = <<>>
    /\ response' = NoResponse
    /\ UNCHANGED <<environ, now, store, inflight>>

Next ==
    \/ Tick
    \/ CallScheduleNotification
    \/ CallScheduleCronNotification
    \/ CallListScheduledNotifications
    \/ CallDeleteSchedule
    \/ CallPauseSchedule
    \/ CallResumeSchedule
    \/ CallSendPushNotification
    \/ Deliver

Spec == Init /\ [][Next]_vars

---------------------------------------------------------------------------
(* The configuration: server start, health check and the token command *)

TestSecret == "test-secret"

AuthDisabledValues ==
    {<<>>, <<"t", "r", "u", "e">>, <<"T", "R", "U", "E">>, <<"T", "r", "u", "e">>,
     <<"f", "a", "l", "s", "e">>, <<"1">>, <<"y", "e", "s">>}

Emails == {"user@example.com"}

DurationAlphabet == {"1", "d", "y", "\n"}
SampleDurations ==
    {<<"1", "0", "d">>, <<"1", "9", "h">>, <<"1", "m">>, <<"9", "s">>, <<"1", "y">>,
     <<"1", "d", "1", "h">>, <<"1", "0">>, <<"a", "b", "c">>, <<"1", "0", "d", "\n">>}
Durations == Strings(DurationAlphabet, MaxDurationLen) \cup SampleDurations

ConfigInit ==
    /\ environ \in [QSTASH_TOKEN : {None, Some(""), Some("test-token")},
                     NTFY_TOPIC : {None, Some(<<>>), Some(TestTopic)},
                     JWT_SECRET : {None, Some(""), Some(TestSecret)},
                     AUTH_DISABLED : Opt(AuthDisabledValues)]
    /\ now = 0
    /\ request = Idle
    /\ calls = <<>>
    /\ response = NoResponse
    /\ store = [id \in ScheduleIdArgs |-> "active"]
    /\ inflight = [slot \in Slots |-> NotRunning]

\* server.py is loaded: the FastMCP instance is made with create_auth()
StartServer ==
    /\ request = Idle
    /\ request' = [tool |-> "server"]
    /\ calls' = <<>>
    /\ response' = FastMCP
    /\ UNCHANGED <<environ, now, store, inflight>>

\* A client calls the tool 'health' of the server
CallHealth ==
    /\ request = Idle
    /\ request' = [tool |-> "health", through |-> "call_tool"]
    /\ calls' = <<>>
    /\ response' = call_tool("health", health)
    /\ UNCHANGED <<environ, now, store, inflight>>

\* tools.health.health() is called as a function
InvokeHealth ==
    /\ request = Idle
    /\ request' = [tool |-> "health", through |-> "function"]
    /\ calls' = <<>>
    /\ response' = health
    /\ UNCHANGED <<environ, now, store, inflight>>

InvokeGetMissingEnvVars ==
    /\ request = Idle
    /\ request' = [tool |-> "get_missing_env_vars"]
    /\ calls' = <<>>
    /\ response' = Return(get_missing_env_vars)
    /\ UNCHANGED <<environ, now, store, inflight>>

InvokeParseDuration ==
    /\ request = Idle
    /\ \E duration \in Durations :
           /\ request' = [tool |-> "parse_duration", duration |-> duration]
           /\ response' = parse_duration(duration)
    /\ calls' = <<>>
    /\ UNCHANGED <<environ, now, store, inflight>>

\* cronty token issue --email <email> --expires-in <duration>
RunIssueToken ==
    /\ request = Idle
    /\ \E email \in Emails, expires_in \in SampleDurations :
           LET out == issue_token(email, expires_in)
           IN /\ request' = [tool |-> "issue_token", email |-> email,
                             expires_in |-> expires_in]
              /\ calls' = out.calls
              /\ response' = out.result
    /\ UNCHANGED <<environ, now, store, inflight>>

ConfigNext ==
    \/ Tick
    \/ StartServer
    \/ CallHealth
    \/ InvokeHealth
    \/ InvokeGetMissingEnvVars
    \/ InvokeParseDuration
    \/ RunIssueToken
    \/ Deliver

ConfigSpec == ConfigInit /\ [][ConfigNext]_vars

---------------------------------------------------------------------------
(* Overlapping management invocations against one QStash *)

ManageTool(tool, schedule_id, qstash) ==
    CASE tool = "delete_schedule" -> delete_schedule(schedule_id, qstash)
      [] tool = "pause_schedule" -> pause_schedule(schedule_id, qstash)
      [] tool = "resume_schedule" -> resume_schedule(schedule_id, qstash)

ManageRequests == DeleteRequests \cup PauseRequests \cup ResumeRequests

\* QStash answers a call for a schedule it holds, and refuses one for a
\* schedule it does not hold
Answered == [ok |-> TRUE, value |-> <<>>]
Refused == [ok |-> FALSE, value |-> <<"4", "0", "4", " ", "N", "o", "t", " ", "F", "o", "u", "n", "d">>]
QStashAnswer(schedule_id) == IF store[schedule_id] = "absent" THEN Refused ELSE Answered

\* What the mutating call of a tool leaves of a schedule QStash holds
Mutated(tool, state) ==
    IF state = "absent" THEN "absent"
    ELSE CASE tool = "delete_schedule" -> "absent"
           [] tool = "pause_schedule" -> "paused"
           [] tool = "resume_schedule" -> "active"

RaceInit ==
    /\ environ \in [QSTASH_TOKEN : {None, Some("test-token")},
                     NTFY_TOPIC : {Some(TestTopic)}]
    /\ now = 0
    /\ request = Idle
    /\ calls = <<>>
    /\ response = NoResponse
    /\ store \in [ScheduleIdArgs -> {"absent", "active", "paused"}]
    /\ inflight = [slot \in Slots |-> NotRunning]

\* A tool call arrives and the QStash client is made
RaceBegin(slot) ==
    /\ inflight[slot] = NotRunning
    /\ \E req \in ManageRequests :
           LET out == ManageTool(req.tool, req.schedule_id, [get |-> Answered, mutate |-> Answered])
           IN inflight' = [inflight EXCEPT ![slot] =
                              IF environ.QSTASH_TOKEN = None
                              THEN [pc |-> "done", tool |-> req.tool,
                                    schedule_id |-> req.schedule_id,
                                    calls |-> out.calls, response |-> out.result]
                              ELSE [pc |-> "lookup", tool |-> req.tool,
                                    schedule_id |-> req.schedule_id]]
    /\ UNCHANGED <<environ, now, request, calls, response, store>>

\* client.schedule.get reaches QStash; a failed lookup ends the invocation
RaceLookup(slot) ==
    /\ inflight[slot].pc = "lookup"
    /\ LET inv == inflight[slot]
           got == QStashAnswer(inv.schedule_id)
           out == ManageTool(inv.tool, inv.schedule_id, [get |-> got, mutate |-> Answered])
       IN inflight' = [inflight EXCEPT ![slot] =
                          IF got.ok
                          THEN [pc |-> "mutate", tool |-> inv.tool,
                                schedule_id |-> inv.schedule_id, got |-> got]
                          ELSE [pc |-> "done", tool |-> inv.tool,
                                schedule_id |-> inv.schedule_id,
                                calls |-> out.calls, response |-> out.result]]
    /\ UNCHANGED <<environ, now, request, calls, response, store>>

\* client.schedule.delete / pause / resume reaches QStash and the tool returns
RaceMutate(slot) ==
    /\ inflight[slot].pc = "mutate"
    /\ LET inv == inflight[slot]
           done == QStashAnswer(inv.schedule_id)
           out == ManageTool(inv.tool, inv.schedule_id, [get |-> inv.got, mutate |-> done])
       IN /\ inflight' = [inflight EXCEPT ![slot] =
                             [pc |-> "done", tool |-> inv.tool,
                              schedule_id |-> inv.schedule_id,
                              calls |-> out.calls, response |-> out.result]]
          /\ store' = [store EXCEPT ![inv.schedule_id] = Mutated(inv.tool, @)]
    /\ UNCHANGED <<environ, now, request, calls, response>>

\* The caller has its answer
RaceFinish(slot) ==
    /\ inflight[slot].pc = "done"
    /\ inflight' = [inflight EXCEPT ![slot] = NotRunning]
    /\ UNCHANGED <<environ, now, request, calls, response, store>>

\* Another client of the same QStash account deletes a schedule
OtherClientDeletes ==
    /\ \E id \in ScheduleIdArgs :
           /\ store[id] # "absent"
           /\ store' = [store EXCEPT ![id] = "absent"]
    /\ UNCHANGED <<environ, now, request, calls, response, inflight>>

RaceNext ==
    \/ \E slot \in Slots : RaceBegin(slot)
    \/ \E slot \in Slots : RaceLookup(slot)
    \/ \E slot \in Slots : RaceMutate(slot)
    \/ \E slot \in Slots : RaceFinish(slot)
    \/ OtherClientDeletes

RaceSpec == RaceInit /\ [][RaceNext]_vars

---------------------------------------------------------------------------
(* What the claims speak of *)

IsToolError(msg) == response.exc /\ response.type = "ToolError" /\ response.msg = msg

\* The call ended in some ToolError
Rejected == response.exc /\ response.type = "ToolError"

\* The scheduling modes a schedule_notification request uses
ModesInUse(req) ==
    {m \in {"datetime", "separate", "delay"} :
        \/ m = "datetime" /\ req.datetime_iso # None
        \/ m = "separate" /\ (req.date # None \/ req.time # None \/ req.timezone # None)
        \/ m = "delay" /\ req.delay # None}

OnlyMode(m) == request.tool = "schedule_notification" /\ ModesInUse(request) = {m}

SeparateComplete(req) == req.date # None /\ req.time # None /\ req.timezone # None

\* The parameters of the date+time+timezone mode a request leaves out, in the
\* order date, time, timezone
NotSupplied(req) == SelectSeq(<<"date", "time", "timezone">>, LAMBDA p : req[p] = None)

\* The request names an instant: a parseable datetime with an offset, or a
\* calendar date and time of day in a known time zone
NamesInstant(req) ==
    \/ /\ ModesInUse(req) = {"datetime"}
       /\ req.datetime_iso.v.iso
       /\ req.datetime_iso.v.tz # None
    \/ /\ ModesInUse(req) = {"separate"}
       /\ SeparateComplete(req)
       /\ req.timezone.v \in KnownZones
       /\ ~strptime(req.date.v, req.time.v).exc

RequestedInstant(req) ==
    IF req.datetime_iso # None
    THEN req.datetime_iso.v.local - req.datetime_iso.v.tz.v * TicksPerMinute
    ELSE strptime(req.date.v, req.time.v).value
         - UtcOffsetMinutes(req.timezone.v) * TicksPerMinute

\* The number of whitespace-separated fields of a string: the places where a
\* field starts
FieldCount(s) ==
    Cardinality({i \in 1..Len(s) :
                    s[i] \notin Whitespace /\ (i = 1 \/ s[i - 1] \in Whitespace)})

\* The QStash delay format: one or more parts, each one or more digits and a
\* unit letter, the units in the order d, h, m, s and none twice
UnitRank(c) == CASE c = "d" -> 1 [] c = "h" -> 2 [] c = "m" -> 3 [] c = "s" -> 4
                 [] OTHER -> 0
WellFormedDelay(s) ==
    /\ s # <<>>
    /\ \A i \in 1..Len(s) : s[i] \in Digits \/ UnitRank(s[i]) > 0
    /\ UnitRank(s[Len(s)]) > 0
    /\ \A i \in 1..Len(s) : UnitRank(s[i]) > 0 => (i > 1 /\ s[i - 1] \in Digits)
    /\ \A i, j \in 1..Len(s) :
           (i < j /\ UnitRank(s[i]) > 0 /\ UnitRank(s[j]) > 0)
               => UnitRank(s[i]) < UnitRank(s[j])

\* A label QStash takes: non-empty, of alphanumerics, hyphens, underscores and
\* periods only
WellFormedLabel(s) == s # <<>> /\ \A i \in 1..Len(s) : s[i] \in LabelChars

---------------------------------------------------------------------------
(* Claims *)

\* C1: schedule_notification accepts a call only when exactly one scheduling
\* mode is in use, any one of date, time, timezone counting as the separate
\* mode; with no mode it raises the "No scheduling parameters provided"
\* ToolError, with two or more the "Multiple scheduling modes provided" one,
\* and in neither case is anything sent to QStash.
C1_ModesMutuallyExclusive ==
    request.tool = "schedule_notification" =>
        LET n == Cardinality(ModesInUse(request))
        IN /\ n = 0 => response = ToolError("No scheduling parameters provided", <<>>)
           /\ n > 1 => response = ToolError("Multiple scheduling modes provided", <<>>)
           /\ ~response.exc => n = 1
           /\ calls # <<>> => n = 1

\* C1 witness: timezone alone together with a delay is refused as two modes.
C1_Witness ==
    /\ request.tool = "schedule_notification"
    /\ request.timezone # None /\ request.date = None /\ request.time = None
    /\ request.delay # None /\ request.datetime_iso = None
    /\ IsToolError("Multiple scheduling modes provided")

\* C2: with only the date+time+timezone mode in use and not all three of
\* date, time, timezone supplied, the call raises the "Missing required
\* parameters" ToolError listing exactly the parameters not supplied, in the
\* order date, time, timezone.
C2_MissingParametersListed ==
    (OnlyMode("separate") /\ ~SeparateComplete(request)) =>
        response = ToolError("Missing required parameters", NotSupplied(request))

\* C2 witness: only a date is given; time and timezone are listed.
C2_Witness ==
    /\ OnlyMode("separate")
    /\ request.date # None /\ request.time = None /\ request.timezone = None
    /\ response.exc /\ response.detail = <<"time", "timezone">>

\* C3: in datetime mode and in date+time+timezone mode, a requested instant
\* at or before the clock reading is refused with the "Scheduled time must be
\* in the future" ToolError and nothing is sent; a later instant is not
\* refused, and the message.publish call then made carries as not_before the
\* instant's Unix timestamp in whole seconds.
C3_OnlyFutureInstants ==
    (request.tool = "schedule_notification" /\ NamesInstant(request)) =>
        LET t == RequestedInstant(request)
        IN /\ t <= now =>
                /\ response = ToolError("Scheduled time must be in the future", <<>>)
                /\ calls = <<>>
           /\ t > now =>
                /\ ~Rejected
                /\ environ.QSTASH_TOKEN # None => Len(calls) = 1
                /\ \A i \in 1..Len(calls) :
                       /\ calls[i].op = "message.publish"
                       /\ calls[i].kwargs.not_before = t \div TicksPerSecond

\* C3 witness: a datetime a fraction of a second after the clock reading is
\* published with its timestamp truncated to the second.
C3_Witness ==
    /\ OnlyMode("datetime") /\ NamesInstant(request)
    /\ RequestedInstant(request) = now + 1
    /\ RequestedInstant(request) % TicksPerSecond # 0
    /\ Len(calls) = 1
    /\ calls[1].kwargs.not_before * TicksPerSecond = now

\* C4: in datetime mode an unparseable string raises the "Invalid ISO 8601
\* datetime format" ToolError, and a parseable datetime without an offset
\* raises the "must include timezone" ToolError whether its local time is
\* before or after the clock reading.
C4_DatetimeFormatChecks ==
    OnlyMode("datetime") =>
        LET s == request.datetime_iso.v
        IN /\ ~s.iso => response = ToolError("Invalid ISO 8601 datetime format", <<>>)
           /\ (s.iso /\ s.tz = None) =>
                  response = ToolError("ISO 8601 datetime must include timezone", <<>>)

\* C4 witness: a timezone-less datetime whose local time has already passed
\* is reported as missing its timezone.
C4_Witness ==
    /\ OnlyMode("datetime")
    /\ request.datetime_iso.v.iso /\ request.datetime_iso.v.tz = None
    /\ request.datetime_iso.v.local < now
    /\ IsToolError("ISO 8601 datetime must include timezone")

\* C5: a timezone that is not a known IANA timezone raises the "Invalid
\* timezone" ToolError, from schedule_notification in date+time+timezone mode
\* and from schedule_cron_notification once the cron expression has passed.
C5_UnknownTimezoneRejected ==
    /\ (OnlyMode("separate") /\ SeparateComplete(request)
            /\ request.timezone.v \notin KnownZones)
           => IsToolError("Invalid timezone")
    /\ (request.tool = "schedule_cron_notification" /\ FieldCount(request.cron) = 5
            /\ request.timezone \notin KnownZones)
           => IsToolError("Invalid timezone")

\* C6: in delay mode a delay is accepted if and only if it is in the QStash
\* delay format; any other string raises the "Invalid delay format"
\* ToolError, and an accepted delay is the delay of the message.publish call
\* and of the result.
C6_DelayFormat ==
    OnlyMode("delay") =>
        /\ IsToolError("Invalid delay format") <=> ~WellFormedDelay(request.delay.v)
        /\ \A i \in 1..Len(calls) : calls[i].kwargs.delay = request.delay.v
        /\ ~response.exc => response.value.delay = request.delay.v

\* C7: schedule_cron_notification refuses a cron expression that does not
\* have exactly 5 whitespace-separated fields with the "exactly 5 fields"
\* ToolError and creates no schedule; a schedule is created only for 5 fields.
C7_CronFiveFields ==
    request.tool = "schedule_cron_notification" =>
        /\ FieldCount(request.cron) # 5 =>
               /\ response = ToolError("Invalid cron expression",
                                       <<"Cron requires exactly 5 fields">>)
               /\ calls = <<>>
        /\ calls # <<>> => FieldCount(request.cron) = 5

\* C7 witness: an expression of six fields is refused.
C7_Witness ==
    /\ request.tool = "schedule_cron_notification"
    /\ FieldCount(request.cron) = 6
    /\ IsToolError("Invalid cron expression")
    /\ calls = <<>>

\* C8: when schedule_cron_notification succeeds, exactly one schedule.create
\* call was made, with cron "CRON_TZ=<timezone> <cron>" from the arguments as
\* given, destination the ntfy.sh URL of the topic and body the message; the
\* result's cron is that same string and its schedule_id the id QStash
\* returned.
C8_CronScheduleCreated ==
    (request.tool = "schedule_cron_notification" /\ ~response.exc) =>
        /\ Len(calls) = 1
        /\ calls[1].op = "schedule.create"
        /\ calls[1].kwargs.cron = CRON_TZ \o request.timezone \o <<" ">> \o request.cron
        /\ calls[1].kwargs.destination = NtfyUrl \o request.notification_topic
        /\ calls[1].kwargs.body = request.message
        /\ response.value.success
        /\ response.value.cron = calls[1].kwargs.cron
        /\ response.value.schedule_id = calls[1].answer.value

\* C8 witness: a cron expression with surrounding whitespace is scheduled in
\* Europe/Warsaw under the second id.
C8_Witness ==
    /\ request.tool = "schedule_cron_notification"
    /\ ~response.exc
    /\ request.timezone = EuropeWarsaw
    /\ request.cron # Strip(request.cron)
    /\ response.value.schedule_id = "id-2"

\* C9: the CRON_TZ prefix round-trips: _parse_cron of the cron string sent to
\* schedule.create is the (cron, timezone) pair the caller gave, and
\* list_scheduled_notifications reports that pair for a schedule stored with
\* such a string; a stored cron string without the prefix is reported
\* unchanged with timezone UTC.
C9_CronTzRoundTrip ==
    /\ request.tool = "schedule_cron_notification" =>
           \A i \in 1..Len(calls) :
               _parse_cron(calls[i].kwargs.cron) = <<request.cron, request.timezone>>
    /\ (request.tool = "list_scheduled_notifications" /\ ~response.exc) =>
           \A i \in 1..Len(response.value.schedules) :
               \A j \in 1..Len(calls[1].answer.value) :
                   LET reported == response.value.schedules[i]
                       stored == calls[1].answer.value[j]
                   IN reported.schedule_id = stored.schedule_id =>
                          /\ ~StartsWith(stored.cron, CRON_TZ) =>
                                 /\ reported.cron_expression = stored.cron
                                 /\ reported.timezone = UTC
                          /\ \A tz \in KnownZones, c \in SampleCrons :
                                 stored.cron = CRON_TZ \o tz \o <<" ">> \o c =>
                                     /\ reported.cron_expression = c
                                     /\ reported.timezone = tz

\* C9 witness: a schedule created in Europe/Warsaw with an expression that
\* starts with a space is listed with that expression and that timezone.
C9_Witness ==
    /\ request.tool = "list_scheduled_notifications"
    /\ ~response.exc
    /\ \E i \in 1..Len(response.value.schedules) :
           /\ response.value.schedules[i].timezone = EuropeWarsaw
           /\ Head(response.value.schedules[i].cron_expression) = " "
           /\ FieldCount(response.value.schedules[i].cron_expression) = 5

\* C10: every label in a schedule.create call is non-empty and made only of
\* alphanumerics, hyphens, underscores and periods, any other supplied label
\* raising the "Invalid label" ToolError; the call carries a label exactly
\* when one was supplied, and then the supplied one.
C10_LabelsWellFormed ==
    request.tool = "schedule_cron_notification" =>
        /\ \A i \in 1..Len(calls) :
               /\ "label" \in DOMAIN calls[i].kwargs <=> request.label # None
               /\ request.label # None =>
                      /\ calls[i].kwargs.label = request.label.v
                      /\ WellFormedLabel(calls[i].kwargs.label)
        /\ (request.label # None /\ ~WellFormedLabel(request.label.v)
                /\ FieldCount(request.cron) = 5 /\ request.timezone \in KnownZones)
               => IsToolError("Invalid label")

---------------------------------------------------------------------------
(* Listing *)

\* The schedules QStash listed in the call under way
Listed == calls[1].answer.value

\* A destination on the host ntfy.sh, and the topic it names
IsNtfyShUrl(d) == d = <<"h", "t", "t", "p", "s", ":", "/", "/">> \o NtfySh \/ StartsWith(d, NtfyUrl)
TopicPart(d) == SubSeq(d, Len(NtfyUrl) + 1, Len(d))

ScheduleIds(seq) == [i \in 1..Len(seq) |-> seq[i].schedule_id]
DestinationOf(entry) == entry.schedule_id[2]

ListAnswered == request.tool = "list_scheduled_notifications" /\ ~response.exc

\* C11: list_scheduled_notifications returns only schedules whose destination
\* is an ntfy.sh URL (any other destination is left out), returns every such
\* schedule when no topic filter is given, reports as notification_topic the
\* topic part of the URL, and 'count' is the number of entries of 'schedules'.
C11_OnlyNtfyShSchedulesListed ==
    ListAnswered =>
        LET entries == response.value.schedules
            IsNtfySh(s) == IsNtfyShUrl(s.destination)
        IN /\ \A i \in 1..Len(entries) : IsNtfyShUrl(DestinationOf(entries[i]))
           /\ request.notification_topic = None
                  => ScheduleIds(entries) = ScheduleIds(SelectSeq(Listed, IsNtfySh))
           /\ \A i \in 1..Len(entries) :
                  StartsWith(DestinationOf(entries[i]), NtfyUrl)
                      => entries[i].notification_topic = TopicPart(DestinationOf(entries[i]))
           /\ response.value.count = Len(entries)

\* C12: given a notification_topic, the result holds exactly the ntfy.sh
\* schedules of that topic, in the order QStash returned them, and no
\* schedule of another topic.
C12_TopicFilterExact ==
    (ListAnswered /\ request.notification_topic # None) =>
        LET entries == response.value.schedules
            topic == request.notification_topic.v
            OfTopic(s) == /\ StartsWith(s.destination, NtfyUrl)
                          /\ TopicPart(s.destination) = topic
        IN /\ ScheduleIds(entries) = ScheduleIds(SelectSeq(Listed, OfTopic))
           /\ \A i \in 1..Len(entries) : entries[i].notification_topic = topic

---------------------------------------------------------------------------
(* Deleting, pausing and resuming a schedule *)

ManageTools == {"delete_schedule", "pause_schedule", "resume_schedule"}
MutatingOps == {"schedule.delete", "schedule.pause", "schedule.resume"}
MutatingOpOf(tool) ==
    CASE tool = "delete_schedule" -> "schedule.delete"
      [] tool = "pause_schedule" -> "schedule.pause"
      [] tool = "resume_schedule" -> "schedule.resume"
FailureTextOf(tool) ==
    CASE tool = "delete_schedule" -> "Failed to delete schedule"
      [] tool = "pause_schedule" -> "Failed to pause schedule"
      [] tool = "resume_schedule" -> "Failed to resume schedule"

Managing == request.tool \in ManageTools

\* The text holds 'not found' or '404', whatever the case of its letters
SaysNotFound(text) ==
    \E i \in 1..Len(text), j \in 1..Len(text) :
        Lower(SubSeq(text, i, j)) \in {<<"n", "o", "t", " ", "f", "o", "u", "n", "d">>, <<"4", "0", "4">>}

LookupRaised == Len(calls) >= 1 /\ calls[1].op = "schedule.get" /\ calls[1].answer.exc
MutationRaised == Len(calls) = 2 /\ calls[2].answer.exc

\* C13: delete_schedule, pause_schedule and resume_schedule look the schedule
\* up (schedule.get) before the mutating call, make the mutating call at most
\* once and only after the lookup succeeded, and on success return
\* success=True with the given schedule_id (paused=True for pause,
\* paused=False for resume); when the lookup fails with a text holding
\* 'not found' or '404' in any case, no mutating call is made and the tool
\* returns success=False with a 'Schedule not found' error.
C13_LookupBeforeMutation ==
    Managing =>
        /\ \A i \in 1..Len(calls) :
               /\ calls[i].kwargs = <<request.schedule_id>>
               /\ calls[i].op \in MutatingOps
                      => /\ i = 2
                         /\ calls[i].op = MutatingOpOf(request.tool)
                         /\ calls[1].op = "schedule.get"
                         /\ ~calls[1].answer.exc
        /\ Len(calls) <= 2
        /\ (Len(calls) = 2 /\ ~calls[2].answer.exc)
               => /\ ~response.exc
                  /\ response.value.success
                  /\ response.value.schedule_id = request.schedule_id
                  /\ request.tool = "pause_schedule" => response.value.paused
                  /\ request.tool = "resume_schedule" => ~response.value.paused
        /\ (LookupRaised /\ SaysNotFound(calls[1].answer.msg))
               => /\ Len(calls) = 1
                  /\ ~response.exc
                  /\ ~response.value.success
                  /\ response.value.error.text = "Schedule not found"

\* A lookup answered '404 Not Found' is reported as a schedule not found
C13_Witness ==
       /\ request.tool = "delete_schedule"
       /\ LookupRaised
       /\ calls[1].answer.msg = <<"4", "0", "4", " ", "N", "o", "t", " ", "F", "o", "u", "n", "d">>
       /\ ~response.exc /\ ~response.value.success

\* C14: when the lookup succeeds but the mutating call raises, and when the
\* lookup raises an error that says neither 'not found' nor '404', the tool
\* returns success=False with the schedule_id and the error 'Failed to
\* delete/pause/resume schedule: <message>' carrying the text of the error.
C14_OtherErrorsReported ==
    (Managing /\ (MutationRaised \/ (LookupRaised /\ ~SaysNotFound(calls[1].answer.msg)))) =>
        /\ ~response.exc
        /\ ~response.value.success
        /\ response.value.schedule_id = request.schedule_id
        /\ response.value.error.text = FailureTextOf(request.tool)
        /\ response.value.error.detail = calls[Len(calls)].answer.msg

\* The mutating call of resume_schedule raises 'Schedule not found' after a
\* lookup that succeeded: reported as a failure to resume
C14_Witness ==
    /\ request.tool = "resume_schedule"
    /\ MutationRaised
    /\ calls[2].answer.msg = <<"S", "c", "h", "e", "d", "u", "l", "e", " ", "n", "o", "t", " ", "f", "o", "u", "n", "d">>
    /\ ~response.exc
    /\ response.value.error.text = "Failed to resume schedule"


---------------------------------------------------------------------------
(* Push notifications *)

Pushing == request.tool = "send_push_notification"
OptionalFields == {"title", "priority", "tags", "markdown", "click", "icon", "attach", "filename", "actions"}
PriorityInRange == request.priority = None \/ request.priority.v \in 1..5
Posted == Pushing /\ Len(calls) = 1 /\ calls[1].op = "ntfy.post"

\* C18: send_push_notification requires only a message: a call that supplies
\* a message and no notification_topic is sent to the topic configured in the
\* NTFY_TOPIC environment variable, and succeeds when the POST does.
C18_MessageOnlySuffices ==
    (Pushing /\ request.message # None /\ request.notification_topic = None
        /\ PriorityInRange) =>
        /\ Posted
        /\ calls[1].kwargs.content.topic = environ.NTFY_TOPIC.v
        /\ ~calls[1].answer.exc => (~response.exc /\ response.value.success)

\* C19: the JSON payload posted to ntfy.sh always holds 'topic' and
\* 'message', and holds each optional field (title, priority, tags, markdown,
\* click, icon, attach, filename, actions) if and only if the caller supplied
\* it, with exactly the supplied value; nothing is present as null.
C19_PayloadFields ==
    Posted =>
        LET payload == calls[1].kwargs.content
        IN /\ DOMAIN payload
                  = {"topic", "message"} \cup {k \in OptionalFields : request[k] # None}
           /\ payload.topic = request.notification_topic.v
           /\ payload.message = request.message.v
           /\ \A k \in OptionalFields : request[k] # None => payload[k] = request[k].v

\* markdown=False, an empty title and an empty list of tags were supplied and
\* are in the payload
C19_Witness ==
    /\ Posted
    /\ request.markdown = Some(FALSE) /\ request.title = Some("") /\ request.tags = Some(<<>>)
    /\ calls[1].kwargs.content.markdown = FALSE
    /\ "click" \notin DOMAIN calls[1].kwargs.content

\* C20: when the POST cannot connect the tool fails with the ToolError
\* 'Failed to connect to notification service'; when ntfy.sh answers with an
\* HTTP error status it fails with a ToolError holding the status code and
\* the response text; it returns success=True with the notification id only
\* when the POST returned a status that is not an error.
C20_PushFailures ==
    Posted =>
        LET reply == calls[1].reply
        IN /\ (reply.raised /\ reply.type = "ConnectError")
                  => /\ IsToolError("Failed to connect to notification service")
                     /\ response.detail = reply.text
           /\ (~reply.raised /\ reply.status_code >= 400)
                  => /\ IsToolError("Notification service error")
                     /\ response.detail = <<reply.status_code, reply.text>>
           /\ ~response.exc
                  => /\ ~reply.raised /\ reply.status_code < 400
                     /\ response.value.success
                     /\ "id" \in DOMAIN reply.json
                            => response.value.id = Some(reply.json.id)

\* ntfy.sh answered 500 Internal Server Error and the tool raised
C20_Witness ==
    /\ Posted
    /\ ~calls[1].reply.raised /\ calls[1].reply.status_code = 500
    /\ IsToolError("Notification service error")


---------------------------------------------------------------------------
(* Errors *)

Answering == request # Idle
ExternalCallFailed == \E i \in 1..Len(calls) : calls[i].answer.exc
ReportsFailure == ~response.exc /\ "success" \in DOMAIN response.value /\ ~response.value.success

\* C15: every error that occurs while a tool handles a request reaches the
\* caller as a tool-call failure; no tool reports an error by other means
\* (such as a returned value that says the call did not succeed).
C15_ErrorsAreToolFailures ==
    Answering =>
        /\ ExternalCallFailed => response.exc
        /\ ~ReportsFailure

\* C15 as amended: in schedule_notification, schedule_cron_notification,
\* list_scheduled_notifications and send_push_notification every error
\* reaches the caller as a tool-call failure and no failure is reported in a
\* returned value; delete_schedule, pause_schedule and resume_schedule return
\* success=False with an 'error' text exactly when a QStash call failed, and
\* raise only when QSTASH_TOKEN is not set.
C15_ErrorsReported ==
    Answering =>
        /\ ~Managing
               => /\ ExternalCallFailed => response.exc
                  /\ ~ReportsFailure
        /\ Managing
               => /\ ExternalCallFailed <=> ReportsFailure
                  /\ ReportsFailure => "error" \in DOMAIN response.value
                  /\ response.exc <=> environ.QSTASH_TOKEN = None
                  /\ response.exc => (calls = <<>> /\ response.type = "KeyError")

\* schedule.list raised and the listing failed as a tool call
C15_Witness ==
    /\ request.tool = "list_scheduled_notifications"
    /\ ExternalCallFailed
    /\ response.exc


\* C16: no tool retries or recovers: within one invocation each external
\* operation (message.publish, schedule.create, schedule.list, schedule.get,
\* schedule.delete / pause / resume, the POST to ntfy.sh) is invoked at most
\* once, and after an external operation failed no other is invoked.
C16_NoRetryNoRecovery ==
    Answering =>
        /\ \A i, j \in 1..Len(calls) : i # j => calls[i].op # calls[j].op
        /\ \A i \in 1..Len(calls) : calls[i].answer.exc => i = Len(calls)

\* The lookup of delete_schedule timed out and nothing else was called
C16_Witness ==
    /\ request.tool = "delete_schedule"
    /\ Len(calls) = 1
    /\ calls[1].answer.exc
    /\ calls[1].answer.msg = <<"C", "o", "n", "n", "e", "c", "t", "i", "o", "n", " ", "t", "i", "m", "e", "o", "u", "t">>


---------------------------------------------------------------------------
(* Statelessness *)

---------------------------------------------------------------------------
(* Validation and side effects of the scheduling tools *)

Scheduling == request.tool \in {"schedule_notification", "schedule_cron_notification"}

\* The checks the invocation under way makes all pass
ChecksPass ==
    IF request.tool = "schedule_cron_notification"
    THEN /\ ~_validate_cron(request.cron).exc
         /\ ~_validate_timezone(request.timezone).exc
         /\ request.label # None => ~_validate_label(request.label.v).exc
    ELSE LET mode == _determine_scheduling_mode(request.datetime_iso, request.date,
                                                request.time, request.timezone,
                                                request.delay)
         IN /\ ~mode.exc
            /\ mode.value = "datetime" => ~_parse_iso_datetime(request.datetime_iso.v).exc
            /\ mode.value = "separate"
                   => ~_parse_separate_params(request.date.v, request.time.v,
                                              request.timezone.v).exc
            /\ mode.value = "delay" => ~_validate_delay_format(request.delay.v).exc

\* C27: in an invocation of schedule_notification or
\* schedule_cron_notification that ends in a validation ToolError no QStash
\* operation has been invoked; a QStash operation is invoked only after all
\* checks of the invocation have passed.
C27_ValidationBeforeSideEffects ==
    Scheduling =>
        /\ Rejected => calls = <<>>
        /\ calls # <<>> => ChecksPass

\* A delay with its units out of order is refused and nothing was published
C27_Witness ==
    /\ request.tool = "schedule_notification"
    /\ request.delay = Some(<<"1", "s", "1", "d">>)
    /\ IsToolError("Invalid delay format")
    /\ calls = <<>>


\* C30: every message.publish call made for schedule_notification carries
\* exactly one of not_before and delay: the datetime mode and the
\* date+time+timezone mode send only not_before, the delay mode sends only
\* delay; the result holds 'scheduled_time' (the datetime mode echoes the
\* input, the separate mode gives date, time and timezone) or 'delay', never
\* both.
C30_ExactlyOneOfNotBeforeAndDelay ==
    request.tool = "schedule_notification" =>
        /\ \A i \in 1..Len(calls) :
               /\ calls[i].op = "message.publish"
               /\ ("not_before" \in DOMAIN calls[i].kwargs)
                      <=> ~("delay" \in DOMAIN calls[i].kwargs)
               /\ "not_before" \in DOMAIN calls[i].kwargs
                      <=> (OnlyMode("datetime") \/ OnlyMode("separate"))
               /\ "delay" \in DOMAIN calls[i].kwargs <=> OnlyMode("delay")
        /\ ~response.exc
               => /\ ("scheduled_time" \in DOMAIN response.value)
                         <=> ~("delay" \in DOMAIN response.value)
                  /\ OnlyMode("datetime")
                         => /\ "scheduled_time" \in DOMAIN response.value
                            /\ response.value.scheduled_time = request.datetime_iso.v
                  /\ OnlyMode("separate")
                         => /\ "scheduled_time" \in DOMAIN response.value
                            /\ response.value.scheduled_time
                                   = [date |-> request.date.v, time |-> request.time.v,
                                      timezone |-> request.timezone.v]
                  /\ OnlyMode("delay")
                         => /\ "delay" \in DOMAIN response.value
                            /\ response.value.delay = request.delay.v

\* A delay was published without not_before and is echoed in the result
C30_Witness ==
    /\ OnlyMode("delay")
    /\ Len(calls) = 1
    /\ "delay" \in DOMAIN calls[1].kwargs
    /\ ~response.exc
    /\ response.value.delay = request.delay.v


\* C29: delete_schedule, pause_schedule and resume_schedule never raise: for
\* every schedule_id, every environment (QSTASH_TOKEN unset included) and
\* every behaviour of QStash each returns a dictionary with a boolean
\* 'success', the given 'schedule_id' and exactly one of 'confirmation' (when
\* success is True) and 'error' (when success is False).
C29_ManagementNeverRaises ==
    Managing =>
        /\ ~response.exc
        /\ response.value.success \in BOOLEAN
        /\ response.value.schedule_id = request.schedule_id
        /\ ("confirmation" \in DOMAIN response.value) <=> response.value.success
        /\ ("error" \in DOMAIN response.value) <=> ~response.value.success



---------------------------------------------------------------------------
(* Configuration and health *)

UnsetOrEmpty(var) == environ[var] = None \/ Len(environ[var].v) = 0

\* The names a failure lists
NamesIn(failure) == {failure.detail[i] : i \in 1..Len(failure.detail)}

\* C21: the 'health' tool, called through the MCP server or as a function,
\* fails with a ToolError that names every one of QSTASH_TOKEN and NTFY_TOPIC
\* that is unset or empty, and reports healthy only when neither is missing.
C21_HealthNamesMissingVariables ==
    request.tool = "health" =>
        LET missing == {var \in {"QSTASH_TOKEN", "NTFY_TOPIC"} : UnsetOrEmpty(var)}
        IN IF missing = {}
           THEN ~response.exc /\ response.value.status = "healthy"
           ELSE /\ IsToolError("Missing or empty environment variables")
                /\ missing \subseteq NamesIn(response)


\* AUTH_DISABLED is set to 'true' in some mix of upper and lower case
SpellsTrue(v) ==
    /\ Len(v) = 4
    /\ v[1] \in {"t", "T"} /\ v[2] \in {"r", "R"} /\ v[3] \in {"u", "U"} /\ v[4] \in {"e", "E"}
AuthOff == environ.AUTH_DISABLED # None /\ SpellsTrue(environ.AUTH_DISABLED.v)

\* C22: get_missing_env_vars returns QSTASH_TOKEN if and only if QSTASH_TOKEN
\* is unset or empty, and JWT_SECRET if and only if authentication is not
\* disabled and JWT_SECRET is unset or empty; it returns nothing else, so the
\* result is empty exactly when neither condition holds.
C22_MissingEnvVars ==
    request.tool = "get_missing_env_vars" =>
        LET names == {response.value[i] : i \in 1..Len(response.value)}
        IN /\ "QSTASH_TOKEN" \in names <=> UnsetOrEmpty("QSTASH_TOKEN")
           /\ "JWT_SECRET" \in names <=> (~AuthOff /\ UnsetOrEmpty("JWT_SECRET"))
           /\ names \subseteq {"QSTASH_TOKEN", "JWT_SECRET"}

\* With authentication disabled only the empty QSTASH_TOKEN is reported
C22_Witness ==
    /\ request.tool = "get_missing_env_vars"
    /\ environ.AUTH_DISABLED = Some(<<"T", "R", "U", "E">>)
    /\ environ.JWT_SECRET = None
    /\ environ.QSTASH_TOKEN = Some("")
    /\ response.value = <<"QSTASH_TOKEN">>

\* C23: create_auth returns None exactly when AUTH_DISABLED is 'true' in any
\* case, whatever JWT_SECRET is; otherwise it raises ValueError 'JWT_SECRET is
\* required ...' when JWT_SECRET is unset or empty and else returns a verifier
\* for issuer 'cronty-mcp' and algorithm HS512 keyed with JWT_SECRET; the
\* server never starts with authentication enabled and no verifier.
C23_AuthOnlyDisabledByTrue ==
    request.tool = "server" =>
        /\ IF AuthOff
           THEN ~response.exc /\ response.value.auth = None
           ELSE IF UnsetOrEmpty("JWT_SECRET")
           THEN /\ response.exc
                /\ response.type = "ValueError"
                /\ response.msg = "JWT_SECRET is required when authentication is enabled"
           ELSE /\ ~response.exc
                /\ response.value.auth = Some([public_key |-> environ.JWT_SECRET.v,
                                               issuer |-> "cronty-mcp",
                                               algorithm |-> "HS512"])
        /\ (~AuthOff /\ ~response.exc) => response.value.auth # None

\* AUTH_DISABLED=yes leaves authentication on, and without a secret the
\* server does not start
C23_Witness ==
    /\ request.tool = "server"
    /\ environ.AUTH_DISABLED = Some(<<"y", "e", "s">>)
    /\ environ.JWT_SECRET = Some("")
    /\ response.exc
    /\ response.type = "ValueError"



---------------------------------------------------------------------------
(* The token command *)

DecimalDigits == {"0", "1", "2", "3", "4", "5", "6", "7", "8", "9"}

\* One or more decimal digits followed by a single unit letter
WellFormedDuration(s) ==
    /\ Len(s) >= 2
    /\ s[Len(s)] \in {"d", "h", "m", "s", "y"}
    /\ \A i \in 1..(Len(s) - 1) : s[i] \in DecimalDigits

\* The seconds in a timedelta
TotalSeconds(delta) == delta.days * 24 * 60 * 60 + delta.seconds

\* The seconds one unit stands for
UnitSeconds(unit) ==
    CASE unit = "d" -> 24 * 60 * 60
      [] unit = "h" -> 60 * 60
      [] unit = "m" -> 60
      [] unit = "s" -> 1
      [] unit = "y" -> 365 * 24 * 60 * 60

\* C24: parse_duration accepts exactly the strings made of one or more
\* decimal digits followed by one unit letter among d, h, m, s, y and returns
\* that many days, hours, minutes, seconds or 365-day years; every other
\* string raises ValueError 'Invalid duration format'.
C24_ParseDurationExact ==
    request.tool = "parse_duration" =>
        LET s == request.duration
        IN IF WellFormedDuration(s)
           THEN /\ ~response.exc
                /\ TotalSeconds(response.value)
                       = int(SubSeq(s, 1, Len(s) - 1)) * UnitSeconds(s[Len(s)])
           ELSE /\ response.exc
                /\ response.type = "ValueError"
                /\ response.msg = "Invalid duration format"

Printed == \E i \in 1..Len(calls) : calls[i].kwargs.file = "stdout"
PrintedToken == calls[1].kwargs.token
ErrorPrinted(text) ==
    /\ Len(calls) = 1
    /\ calls[1].kwargs.file = "stderr"
    /\ calls[1].kwargs.text = text
ExitedWith(status) == response.exc /\ response.type = "SystemExit" /\ response.detail = status

\* C25: a token printed by issue_token is signed with HS512 using JWT_SECRET
\* and carries sub equal to the given email, iss 'cronty-mcp', and iat and exp
\* whose difference in seconds is exactly the parsed --expires-in duration.
C25_TokenClaims ==
    (request.tool = "issue_token" /\ Printed) =>
        LET token == PrintedToken
        IN /\ Len(calls) = 1
           /\ token.header.alg = "HS512"
           /\ token.signature = [alg |-> "HS512", key |-> environ.JWT_SECRET.v]
           /\ token.payload.sub = request.email
           /\ token.payload.iss = "cronty-mcp"
           /\ TotalSeconds(token.payload.exp) - TotalSeconds(token.payload.iat)
                  = TotalSeconds(parse_duration(request.expires_in).value)

\* A token for 19 hours issued in the middle of a second
C25_Witness ==
    /\ request.tool = "issue_token"
    /\ request.expires_in = <<"1", "9", "h">>
    /\ now % TicksPerSecond # 0
    /\ Printed
    /\ PrintedToken.payload.exp = [days |-> 0, seconds |-> 19 * 60 * 60 + now \div TicksPerSecond]

\* C26: issue_token prints a token only when JWT_SECRET is set to a non-empty
\* value and the duration is valid; with JWT_SECRET unset or empty it exits
\* with status 1 and an error naming JWT_SECRET on stderr whatever the
\* duration is, with an invalid duration it exits with status 1 and 'Invalid
\* duration format' on stderr, and in both cases writes nothing to stdout.
C26_TokenOnlyForValidInput ==
    request.tool = "issue_token" =>
        /\ Printed => (~UnsetOrEmpty("JWT_SECRET") /\ WellFormedDuration(request.expires_in))
        /\ UnsetOrEmpty("JWT_SECRET")
               => /\ ExitedWith(1)
                  /\ ErrorPrinted("Error: JWT_SECRET environment variable is required")
        /\ (~UnsetOrEmpty("JWT_SECRET") /\ ~WellFormedDuration(request.expires_in))
               => /\ ExitedWith(1)
                  /\ ErrorPrinted("Invalid duration format")



---------------------------------------------------------------------------
(* Overlapping invocations *)

Ended(slot) == inflight[slot].pc = "done" /\ ~inflight[slot].response.exc

\* The mutating call of the invocation found no schedule at QStash
MutationFoundNothing(slot) ==
    /\ Len(inflight[slot].calls) = 2
    /\ inflight[slot].calls[2].answer.exc

ReportsNotFound(slot) ==
    /\ ~inflight[slot].response.value.success
    /\ inflight[slot].response.value.error.text = "Schedule not found"

\* C28: delete_schedule, pause_schedule and resume_schedule report 'Schedule
\* not found' whenever the schedule does not exist when the mutating call
\* reaches QStash, also when another client deleted it after the existence
\* check; of two overlapping delete_schedule invocations for the same schedule
\* one succeeds and the other reports the schedule as not found.
C28_NotFoundAtMutation ==
    /\ \A slot \in Slots : (Ended(slot) /\ MutationFoundNothing(slot)) => ReportsNotFound(slot)
    /\ \A a, b \in Slots :
           (/\ a # b
            /\ Ended(a) /\ Ended(b)
            /\ inflight[a].tool = "delete_schedule" /\ inflight[b].tool = "delete_schedule"
            /\ inflight[a].schedule_id = inflight[b].schedule_id
            /\ inflight[a].response.value.success)
               => ReportsNotFound(b)

=============================================================================
